---- MODULE Spec2Model ----
(***************************************************************************)
(* Model of LinkedSkin/nsfw_detect_api:                                    *)
(*   - the file-backed moving-window rate limiter and its FastAPI          *)
(*     dependencies (app/utils/rate_limiter.py), with the token registry   *)
(*     that the admin routes mutate (app/routes/admin.py);                 *)
(*   - the background health monitor (app/routes/netdata.py);              *)
(*   - the start-up of the monitor among sibling worker processes;         *)
(*   - the reverse proxy in front of Netdata (app/routes/netdata.py) and   *)
(*     the admin session that guards it (app/routes/auth.py);              *)
(*   - the detection routes (app/routes/api.py, app/detector).             *)
(*                                                                         *)
(* Strings are modelled as sequences of atoms: an atom is either the       *)
(* blank " " or a word without blanks.  An Optional value is a record      *)
(* [some, val].  Timestamps are integers (seconds); NoTime stands for      *)
(* Python's None where a timestamp is optional.                            *)
(***************************************************************************)
EXTENDS Integers, Sequences, FiniteSets, TLC

VARIABLES
    now,            \* time.time(), the host clock
    env,            \* os.environ: the three rate-limit knobs
    startEnv,       \* the knobs as they were when the process started
    file,           \* the quota file /tmp/nsfw_api_rate_limits.json
    api_tokens,     \* table api_tokens: token -> "absent" | "active" | "inactive"
    last,           \* the last request seen by a dependency and its outcome
    admitted,       \* history: sequence of [key, ts] of admitted requests
    reconfigured,   \* history: how often the knobs were changed since start
    procs,          \* per worker process: its position inside is_allowed
    flock,          \* holders of the exclusive advisory lock on the quota file
    hot_since,      \* monitor_loop local
    cool_down_until,\* monitor_loop local
    sustain,        \* STRESS_SUSTAIN_SECS
    poll,           \* NETDATA_POLL_SEC
    mon,            \* history of the monitor loop (samples and alerts)
    workers,        \* per worker process: its start-up position
    leaderLock,     \* holder of the host-wide leader lock
    monitorCfg,     \* [NETDATA_MONITOR, PUSHCUT_URL] as booleans (set / non-empty)
    monTask,        \* the monitor task of one process: its position and what it did
    proxied,        \* the last exchange that went through the /netdata routes
    served,         \* the last answer of /detect or /isnude
    retries,        \* history: refused checks per key since its last admission
    sent,           \* history: the headers of the last request
    fetched,        \* history: the metrics of the last sample <<cpu, mem, load1x10>>
    loopLog         \* history: when a cycle last raised, when a post last failed

rlVars   == <<env, startEnv, file, api_tokens, last, admitted, reconfigured>>
concVars == <<procs, flock>>
monVars  == <<hot_since, cool_down_until, sustain, poll, mon>>
ldrVars  == <<workers, leaderLock, monitorCfg>>
webVars  == <<monTask, proxied, served>>
histVars == <<retries, sent, fetched, loopLog>>
vars     == <<now, rlVars, concVars, monVars, ldrVars, webVars, histVars>>

----------------------------------------------------------------------------
(* Bounds of the model *)
MaxTime   == 2      \* the clock of the rate-limiter specifications stops here
MaxLimit  == 2      \* limits are drawn from 0..MaxLimit
MaxWindow == 2      \* windows are drawn from 1..MaxWindow
MaxReq    == 2      \* admitted requests kept in the history at a time
MaxReconf == 1      \* changes of the knobs per behaviour
NProcs    == 2      \* worker processes sharing the quota file
MaxMonTime == 500   \* the clock of the monitor specification stops here
MaxLatency == 1     \* seconds the three fetches of a cycle can take

NoTime == -1

None    == [some |-> FALSE, val |-> <<>>]
Some(s) == [some |-> TRUE, val |-> s]

Truthy(opt) == opt.some /\ Len(opt.val) > 0

----------------------------------------------------------------------------
(* Strings *)

RECURSIVE LStrip(_)
LStrip(s) == IF s # <<>> /\ Head(s) = " " THEN LStrip(Tail(s)) ELSE s

RECURSIVE RStrip(_)
RStrip(s) ==
    IF s # <<>> /\ s[Len(s)] = " " THEN RStrip(SubSeq(s, 1, Len(s) - 1)) ELSE s

\* str.strip()
Strip(s) == RStrip(LStrip(s))

IsWord(a) == a # " "

\* str.split(): the words, blanks dropped (words are single atoms)
Split(s) == SelectSeq(s, IsWord)

\* str.lower() on the words the model uses
Lower(w) ==
    CASE w \in {"Bearer", "BEARER"}         -> "bearer"
      [] w = "Connection"                   -> "connection"
      [] w = "Keep-Alive"                   -> "keep-alive"
      [] w = "Proxy-Authenticate"           -> "proxy-authenticate"
      [] w = "TE"                           -> "te"
      [] w = "Trailers"                     -> "trailers"
      [] w = "Transfer-Encoding"            -> "transfer-encoding"
      [] w = "Upgrade"                      -> "upgrade"
      [] w = "Accept-Encoding"              -> "accept-encoding"
      [] w = "Content-Type"                 -> "content-type"
      [] w = "Content-Length"               -> "content-length"
      [] w = "Cookie"                       -> "cookie"
      [] w = "TEXT/HTML; charset=UTF-8"     -> "text/html; charset=utf-8"
      [] w = "</HEAD>"                      -> "</head>"
      [] w = "<HEAD>"                       -> "<head>"
      [] OTHER                              -> w

----------------------------------------------------------------------------
(* The quota file.  state "missing": no such file; "empty": a file of       *)
(* length zero; "corrupt": other content that json.load rejects; "json": a  *)
(* dict key -> list of timestamps.                                          *)

EmptyData == [k \in {} |-> <<>>]

NoFile      == [state |-> "missing", data |-> EmptyData]
EmptyFile   == [state |-> "empty", data |-> EmptyData]
CorruptFile == [state |-> "corrupt", data |-> EmptyData]
JsonFile(d) == [state |-> "json", data |-> d]

\* [ts for ts in data[key] if ts > cutoff]
Prune(tss, cutoff) == LET Recent(ts) == ts > cutoff IN SelectSeq(tss, Recent)

\* dict assignment data[key] = v
Put(data, key, v) ==
    [k \in DOMAIN data \cup {key} |-> IF k = key THEN v ELSE data[k]]

\* json.load(f), with the except branch: unparsable content reads as {}
JsonLoad(f) == IF f.state = "json" THEN f.data ELSE EmptyData

\* Mutant: a refused request writes the pruned dict back
IsAllowedLocked_WritesOnReject(data0, key, limit, window, t) ==
    LET cutoff == t - window
        data1  == IF key \notin DOMAIN data0 THEN Put(data0, key, <<>>) ELSE data0
        data2  == Put(data1, key, Prune(data1[key], cutoff))
    IN  IF Len(data2[key]) >= limit
        THEN [ok |-> FALSE, write |-> TRUE, data |-> data2]
        ELSE [ok |-> TRUE, write |-> TRUE,
              data |-> Put(data2, key, Append(data2[key], t))]

\* Mutant: the old timestamps are left out of the count but stay in the list
IsAllowedLocked_NoPrune(data0, key, limit, window, t) ==
    LET cutoff == t - window
        data1  == IF key \notin DOMAIN data0 THEN Put(data0, key, <<>>) ELSE data0
    IN  IF Len(Prune(data1[key], cutoff)) >= limit
        THEN [ok |-> FALSE, write |-> FALSE, data |-> data1]
        ELSE [ok |-> TRUE, write |-> TRUE,
              data |-> Put(data1, key, Append(data1[key], t))]

\* Mutant: a refused request is recorded too, so that asking again keeps
\* the key locked out
IsAllowedLocked_RecordsRefused(data0, key, limit, window, t) ==
    LET cutoff == t - window
        data1  == IF key \notin DOMAIN data0 THEN Put(data0, key, <<>>) ELSE data0
        data2  == Put(data1, key, Prune(data1[key], cutoff))
    IN  [ok |-> Len(data2[key]) < limit, write |-> TRUE,
         data |-> Put(data2, key, Append(data2[key], t))]

\* The body of is_allowed under the lock, from the loaded dict on:
\* result [ok, write, data]; write says whether the file is rewritten.
IsAllowedLocked(data0, key, limit, window, t) ==
    LET cutoff == t - window
        data1  == IF key \notin DOMAIN data0 THEN Put(data0, key, <<>>) ELSE data0
        data2  == Put(data1, key, Prune(data1[key], cutoff))
    IN  IF Len(data2[key]) >= limit
        THEN [ok |-> FALSE, write |-> FALSE, data |-> data2]
        ELSE [ok |-> TRUE, write |-> TRUE,
              data |-> Put(data2, key, Append(data2[key], t))]

\* The except FileNotFoundError branch: the file is created with this request
CreatedFile(key, t) == JsonFile(Put(EmptyData, key, <<t>>))

\* Mutant: a file that cannot be parsed refuses the request
IsAllowed_FailClosed(f, key, limit, window, t) ==
    IF f.state = "missing"
    THEN [ok |-> TRUE, file |-> CreatedFile(key, t)]
    ELSE IF f.state # "json"
    THEN [ok |-> FALSE, file |-> f]
    ELSE LET r == IsAllowedLocked(JsonLoad(f), key, limit, window, t)
         IN  [ok |-> r.ok, file |-> IF r.write THEN JsonFile(r.data) ELSE f]

\* FileRateLimiter.is_allowed run without interleaving: [ok, file]
IsAllowed(f, key, limit, window, t) ==
    IF f.state = "missing"
    THEN [ok |-> TRUE, file |-> CreatedFile(key, t)]
    ELSE LET r == IsAllowedLocked(JsonLoad(f), key, limit, window, t)
         IN  [ok |-> r.ok, file |-> IF r.write THEN JsonFile(r.data) ELSE f]

----------------------------------------------------------------------------
(* Rates, tokens *)

\* limits.parse(f"{limit}/{window} seconds")
Rate(amount, multiples) == [amount |-> amount, multiples |-> multiples]

\* Mutant: the rates computed once, from the environment at start
CurrentRates_CachedAtStart(e) ==
    [ip_rate    |-> Rate(startEnv.RATE_LIMIT_IP_PER_MIN, startEnv.RATE_LIMIT_WINDOW_SEC),
     token_rate |-> Rate(startEnv.RATE_LIMIT_TOKEN_PER_MIN, startEnv.RATE_LIMIT_WINDOW_SEC)]

\* _current_rates(): read from the environment at each call
CurrentRates(e) ==
    [ip_rate    |-> Rate(e.RATE_LIMIT_IP_PER_MIN, e.RATE_LIMIT_WINDOW_SEC),
     token_rate |-> Rate(e.RATE_LIMIT_TOKEN_PER_MIN, e.RATE_LIMIT_WINDOW_SEC)]

\* str(rate_item), e.g. "2 per 60 second", then .split()
RateStrParts(rate) == <<rate.amount, "per", rate.multiples, "second">>

\* Mutant: the scheme is compared as written
ExtractToken_CaseSensitive(x_api_key, authorization) ==
    IF Truthy(x_api_key) THEN Some(Strip(x_api_key.val))
    ELSE IF Truthy(authorization)
         THEN LET parts == Split(authorization.val)
              IN  IF Len(parts) = 2 /\ parts[1] = "Bearer"
                  THEN Some(Strip(<<parts[2]>>))
                  ELSE None
         ELSE None

\* _extract_token
ExtractToken(x_api_key, authorization) ==
    IF Truthy(x_api_key) THEN Some(Strip(x_api_key.val))
    ELSE IF Truthy(authorization)
         THEN LET parts == Split(authorization.val)
              IN  IF Len(parts) = 2 /\ Lower(parts[1]) = "bearer"
                  THEN Some(Strip(<<parts[2]>>))
                  ELSE None
         ELSE None

\* Mutant: a record counts as valid whatever its active flag
IsValidToken_IgnoresActive(token, table, up) ==
    IF ~up THEN "false"
    ELSE IF token \notin DOMAIN table \/ table[token] = "absent" THEN "false"
    ELSE "true"

\* Mutant: no except around the lookup
IsValidToken_NoExcept(token, table, up) ==
    IF ~up THEN "raise"
    ELSE IF token \notin DOMAIN table \/ table[token] = "absent" THEN "false"
    ELSE IF table[token] = "active" THEN "true" ELSE "false"

\* _is_valid_token: "true" / "false"; "raise" stands for an exception leaving it
IsValidToken(token, table, up) ==
    IF ~up THEN "false"
    ELSE IF token \notin DOMAIN table \/ table[token] = "absent" THEN "false"
    ELSE IF table[token] = "active" THEN "true" ELSE "false"

\* Mutant: a valid token is charged to its own key, but under the IP rate
KeyAndRate_IpRateForToken(x_api_key, authorization, client, e, table, up) ==
    LET rates == CurrentRates(e)
        token == ExtractToken(x_api_key, authorization)
        valid == IF Truthy(token) THEN IsValidToken(token.val, table, up) ELSE "false"
        ip    == IF client.some THEN client.val ELSE <<"unknown">>
    IN  IF valid = "raise"
        THEN [exc |-> TRUE, key |-> <<>>, rate |-> rates.ip_rate]
        ELSE IF valid = "true"
        THEN [exc |-> FALSE, key |-> <<"tok:">> \o token.val, rate |-> rates.ip_rate]
        ELSE [exc |-> FALSE, key |-> <<"ip:">> \o ip, rate |-> rates.ip_rate]

\* The key and rate limit_token_or_ip charges: [exc, key, rate].  exc: an
\* exception left the dependency before any bucket was consulted.
KeyAndRate(x_api_key, authorization, client, e, table, up) ==
    LET rates == CurrentRates(e)
        token == ExtractToken(x_api_key, authorization)
        valid == IF Truthy(token) THEN IsValidToken(token.val, table, up) ELSE "false"
        ip    == IF client.some THEN client.val ELSE <<"unknown">>
    IN  IF valid = "raise"
        THEN [exc |-> TRUE, key |-> <<>>, rate |-> rates.ip_rate]
        ELSE IF valid = "true"
        THEN [exc |-> FALSE, key |-> <<"tok:">> \o token.val, rate |-> rates.token_rate]
        ELSE [exc |-> FALSE, key |-> <<"ip:">> \o ip, rate |-> rates.ip_rate]

\* _hit_or_429 with the file limiter: [status, file, limit, window]
HitOr429(rate, key, f, t) ==
    LET parts  == RateStrParts(rate)
        limit  == parts[1]
        window == parts[3]
        r      == IsAllowed(f, key, limit, window, t)
    IN  [status |-> IF r.ok THEN 200 ELSE 429, file |-> r.file,
         limit |-> limit, window |-> window]

----------------------------------------------------------------------------
(* Inputs *)

T1 == <<"sk_1">>       \* the token the admin creates
IP1 == <<"10.0.0.1">>

Tokens == {T1}

\* The header pairs (X-API-Key, Authorization) requests are drawn from
Hdr(x, a) == [x_api_key |-> x, authorization |-> a]

HeaderChoices ==
    {Hdr(None, None),
     Hdr(Some(<<" ">> \o T1 \o <<" ">>), None),
     Hdr(Some(<<>>), Some(<<"Bearer", " ">> \o T1))}

\* request.client: None when the server has no peer address
ClientChoices == {None, Some(IP1)}

LimitChoices  == 0..MaxLimit
WindowChoices == 1..MaxWindow

EnvChoices ==
    [RATE_LIMIT_IP_PER_MIN : LimitChoices, RATE_LIMIT_TOKEN_PER_MIN : LimitChoices,
     RATE_LIMIT_WINDOW_SEC : WindowChoices]

----------------------------------------------------------------------------
(* History helpers (not program state) *)

\* Number of admitted requests of key k with a timestamp in (t - w, t]
AdmittedIn(k, t, w) ==
    Cardinality({i \in 1..Len(admitted) :
                    admitted[i].key = k /\ admitted[i].ts > t - w /\ admitted[i].ts <= t})

\* What the registry says about an optional token at this moment
RegState(token) ==
    IF ~token.some THEN "none"
    ELSE IF token.val \in DOMAIN api_tokens THEN api_tokens[token.val] ELSE "absent"

\* The history entries that can still fall in a window at time t
StillRelevant(log, t) ==
    LET Keep(a) == a.ts > t - MaxWindow IN SelectSeq(log, Keep)

\* last: the extracted token and the client of the last request, whether the
\* token database answered (TRUE when it was not asked), what the table held
\* for the token, the key charged and the status the dependency produced
\* (200: passed, 429, 500: an exception left it)
NoRequest ==
    [token |-> None, client |-> None, up |-> TRUE, reg |-> "none",
     key |-> <<>>, status |-> 0]

----------------------------------------------------------------------------
(* Rate limiter: initial state and actions *)

RlInit(envs) ==
    /\ env \in envs
    /\ startEnv = env
    /\ file = NoFile
    /\ api_tokens = [t \in Tokens |-> "absent"]
    /\ last = NoRequest
    /\ admitted = <<>>
    /\ reconfigured = 0

\* The clock advances
Tick ==
    /\ now < MaxTime
    /\ now' = now + 1
    /\ admitted' = StillRelevant(admitted, now')
    /\ UNCHANGED <<env, startEnv, file, api_tokens, last, reconfigured,
                   concVars, monVars, ldrVars, webVars, histVars>>

\* An operator changes one knob of the environment of the running process
SetEnv ==
    /\ reconfigured < MaxReconf
    /\ \E e \in EnvChoices :
         /\ e # env
         /\ Cardinality({f \in DOMAIN env : e[f] # env[f]}) = 1
         /\ env' = e
    /\ reconfigured' = reconfigured + 1
    /\ UNCHANGED <<now, startEnv, file, api_tokens, last, admitted,
                   concVars, monVars, ldrVars, webVars, histVars>>

\* admin.create_token: a new record, active
CreateToken ==
    /\ \E t \in Tokens :
         /\ api_tokens[t] = "absent"
         /\ api_tokens' = [api_tokens EXCEPT ![t] = "active"]
    /\ UNCHANGED <<now, env, startEnv, file, last, admitted, reconfigured,
                   concVars, monVars, ldrVars, webVars, histVars>>

\* rec.active = not rec.active
Toggled(st) == IF st = "active" THEN "inactive" ELSE "active"

\* admin.toggle_token (404 when there is no such record)
ToggleToken ==
    /\ \E t \in Tokens :
         /\ api_tokens[t] # "absent"
         /\ api_tokens' = [api_tokens EXCEPT ![t] = Toggled(api_tokens[t])]
    /\ UNCHANGED <<now, env, startEnv, file, last, admitted, reconfigured,
                   concVars, monVars, ldrVars, webVars, histVars>>

\* A request passes through the dependency limit_token_or_ip.  up: whether
\* the token database answers the lookup of this request.
Dependency(h, client, up) ==
         LET kr    == KeyAndRate(h.x_api_key, h.authorization, client, env,
                                 api_tokens, up)
             hit   == HitOr429(kr.rate, kr.key, file, now)
             token == ExtractToken(h.x_api_key, h.authorization)
             seen  == [token |-> token, client |-> client,
                       up |-> (Truthy(token) => up),
                       reg |-> IF Truthy(token) THEN RegState(token) ELSE "none",
                       key |-> kr.key, status |-> 0]
         IN  IF kr.exc
             THEN /\ last' = [seen EXCEPT !.status = 500]
                  /\ UNCHANGED <<file, admitted>>
             ELSE /\ hit.status = 200 => Len(admitted) < MaxReq
                  /\ last' = [seen EXCEPT !.status = hit.status]
                  /\ file' = hit.file
                  /\ admitted' = IF hit.status = 200
                                 THEN Append(admitted, [key |-> kr.key, ts |-> now])
                                 ELSE admitted

\* A request to a route that has the dependency and nothing else to record
LimitTokenOrIp ==
    /\ \E h \in HeaderChoices, client \in ClientChoices, up \in BOOLEAN :
         Dependency(h, client, up)
    /\ UNCHANGED <<now, env, startEnv, api_tokens, reconfigured,
                   concVars, monVars, ldrVars, webVars, histVars>>

----------------------------------------------------------------------------
(* Parts of the state the rate-limiter specification leaves alone *)

ConcIdle == procs = <<>> /\ flock = {}
MonIdle  ==
    hot_since = NoTime /\ cool_down_until = 0 /\ sustain = 0 /\ poll = 0 /\ mon = <<>>
LdrIdle  == workers = <<>> /\ leaderLock = {} /\ monitorCfg = <<>>
WebIdle  == monTask = <<>> /\ proxied = <<>> /\ served = <<>>
HistIdle == retries = <<>> /\ sent = <<>> /\ fetched = <<>> /\ loopLog = <<>>

Init ==
    /\ now = 0
    /\ RlInit(EnvChoices)
    /\ ConcIdle /\ HistIdle /\ MonIdle /\ LdrIdle /\ WebIdle

\* One worker process whose rate-limit knobs stay as they were at start
Next ==
    \/ Tick
    \/ CreateToken
    \/ ToggleToken
    \/ LimitTokenOrIp

Spec == Init /\ [][Next]_vars

\* The same process with an operator changing the knobs while it runs
NextCfg ==
    \/ Tick
    \/ SetEnv
    \/ CreateToken
    \/ LimitTokenOrIp

\* The knobs at start; every other setting is reached by SetEnv
StartEnv ==
    [RATE_LIMIT_IP_PER_MIN |-> 1, RATE_LIMIT_TOKEN_PER_MIN |-> MaxLimit,
     RATE_LIMIT_WINDOW_SEC |-> MaxWindow]

InitCfg ==
    /\ now = 0
    /\ RlInit({StartEnv})
    /\ ConcIdle /\ HistIdle /\ MonIdle /\ LdrIdle /\ WebIdle

SpecCfg == InitCfg /\ [][NextCfg]_vars

----------------------------------------------------------------------------
(* The quota file loses its content between two requests: it is left empty  *)
(* or with text that is not JSON (a write cut short, or the truncation of   *)
(* line 74 by a process that has not written yet).                          *)

DamagedEnvChoices ==
    {e \in EnvChoices : /\ e.RATE_LIMIT_TOKEN_PER_MIN = MaxLimit
                        /\ e.RATE_LIMIT_WINDOW_SEC = MaxWindow}

Damage ==
    /\ file.state = "json"
    /\ file' \in {EmptyFile, CorruptFile}
    /\ UNCHANGED <<now, env, startEnv, api_tokens, last, admitted, reconfigured,
                   concVars, monVars, ldrVars, webVars, histVars>>

InitDamaged ==
    /\ now = 0
    /\ RlInit(DamagedEnvChoices)
    /\ ConcIdle /\ HistIdle /\ MonIdle /\ LdrIdle /\ WebIdle

NextDamaged ==
    \/ Tick
    \/ CreateToken
    \/ LimitTokenOrIp
    \/ Damage

SpecDamaged == InitDamaged /\ [][NextDamaged]_vars

----------------------------------------------------------------------------
(* A client that asks again after a refusal.  retries.pending counts, per   *)
(* key, the checks refused since the key was last admitted; retries.cleared *)
(* is the number of refusals that preceded the latest admission.            *)

MaxRetries == 2     \* refused checks of a key between two admissions

NoRetries == [pending |-> EmptyData, cleared |-> 0]

Pending(k) == IF k \in DOMAIN retries.pending THEN retries.pending[k] ELSE 0

\* A request of a peer without address passes through limit_token_or_ip;
\* the history notes whether its key was refused or admitted
CheckAgain ==
    /\ \E h \in HeaderChoices : Dependency(h, None, TRUE)
    /\ LET k == last'.key
       IN  IF last'.status = 429
           THEN /\ Pending(k) < MaxRetries
                /\ retries' = [retries EXCEPT
                                 !.pending = Put(retries.pending, k, Pending(k) + 1)]
           ELSE retries' = [pending |-> Put(retries.pending, k, 0),
                            cleared |-> Pending(k)]
    /\ UNCHANGED <<now, env, startEnv, api_tokens, reconfigured, sent, fetched,
                   loopLog,
                   concVars, monVars, ldrVars, webVars>>

InitRetry ==
    /\ now = 0
    /\ RlInit(EnvChoices)
    /\ retries = NoRetries /\ sent = <<>> /\ fetched = <<>> /\ loopLog = <<>>
    /\ ConcIdle /\ MonIdle /\ LdrIdle /\ WebIdle

NextRetry ==
    \/ Tick
    \/ CreateToken
    \/ CheckAgain

SpecRetry == InitRetry /\ [][NextRetry]_vars

----------------------------------------------------------------------------
(* Requests with every form of the two headers.  sent is the pair of       *)
(* headers of the last request as the client wrote them.                   *)

T2 == <<"sk_2">>       \* a token no record exists for

XApiKeyChoices ==
    {None, Some(<<>>), Some(<<" ">>), Some(T1), Some(<<" ">> \o T1 \o <<" ">>),
     Some(T2)}

AuthorizationChoices ==
    {None, Some(<<>>),
     Some(<<"Bearer", " ">> \o T1),
     Some(<<"bearer", " ", " ">> \o T1 \o <<" ">>),
     Some(<<"BEARER", " ">> \o T1),
     Some(<<"Bearer", " ">> \o T2),
     Some(<<"Basic", " ">> \o T1),
     Some(<<"Bearer">>),
     Some(T1),
     Some(<<"Bearer", " ">> \o T1 \o <<" ", "x">>)}

\* A request of the peer IP1 with any of these headers passes through
\* limit_token_or_ip
TokenRequest ==
    /\ \E x \in XApiKeyChoices, a \in AuthorizationChoices, up \in BOOLEAN :
         /\ Dependency(Hdr(x, a), Some(IP1), up)
         /\ sent' = Hdr(x, a)
    /\ UNCHANGED <<now, env, startEnv, api_tokens, reconfigured, retries, fetched,
                   loopLog,
                   concVars, monVars, ldrVars, webVars>>

InitToken ==
    /\ now = 0
    /\ RlInit({StartEnv})
    /\ retries = <<>> /\ sent = Hdr(None, None) /\ fetched = <<>> /\ loopLog = <<>>
    /\ ConcIdle /\ MonIdle /\ LdrIdle /\ WebIdle

NextToken ==
    \/ CreateToken
    \/ ToggleToken
    \/ TokenRequest

SpecToken == InitToken /\ [][NextToken]_vars

----------------------------------------------------------------------------
(* The dependency limit_by_token (rate_limiter.py, lines 184-192): a       *)
(* token is required.                                                      *)

\* Mutant: the bucket is charged before the token is looked up
LimitByTokenDep_ChargesThenRefuses(h, up) ==
         LET rates == CurrentRates(env)
             token == ExtractToken(h.x_api_key, h.authorization)
             valid == IF Truthy(token) THEN IsValidToken(token.val, api_tokens, up)
                      ELSE "false"
             key   == <<"tok:">> \o token.val
             hit   == HitOr429(rates.token_rate, key, file, now)
             seen  == [token |-> token, client |-> None,
                       up |-> (Truthy(token) => up),
                       reg |-> IF Truthy(token) THEN RegState(token) ELSE "none",
                       key |-> <<>>, status |-> 0]
         IN  /\ hit.status = 200 /\ valid = "true" => Len(admitted) < MaxReq
             /\ last' = IF valid # "true" THEN [seen EXCEPT !.status = 401]
                        ELSE [seen EXCEPT !.key = key, !.status = hit.status]
             /\ file' = hit.file
             /\ admitted' = IF hit.status = 200 /\ valid = "true"
                            THEN Append(admitted, [key |-> key, ts |-> now])
                            ELSE admitted

\* A request passes through limit_by_token.  status 401: the HTTPException
\* of line 191, raised before _hit_or_429 is reached.
LimitByTokenDep(h, up) ==
         LET rates == CurrentRates(env)
             token == ExtractToken(h.x_api_key, h.authorization)
             valid == IF Truthy(token) THEN IsValidToken(token.val, api_tokens, up)
                      ELSE "false"
             key   == <<"tok:">> \o token.val
             hit   == HitOr429(rates.token_rate, key, file, now)
             seen  == [token |-> token, client |-> None,
                       up |-> (Truthy(token) => up),
                       reg |-> IF Truthy(token) THEN RegState(token) ELSE "none",
                       key |-> <<>>, status |-> 0]
         IN  IF valid # "true"
             THEN /\ last' = [seen EXCEPT !.status = 401]
                  /\ UNCHANGED <<file, admitted>>
             ELSE /\ hit.status = 200 => Len(admitted) < MaxReq
                  /\ last' = [seen EXCEPT !.key = key, !.status = hit.status]
                  /\ file' = hit.file
                  /\ admitted' = IF hit.status = 200
                                 THEN Append(admitted, [key |-> key, ts |-> now])
                                 ELSE admitted

\* A request with any form of the two headers to a route guarded by
\* limit_by_token
LimitByToken ==
    /\ \E x \in XApiKeyChoices, a \in AuthorizationChoices, up \in BOOLEAN :
         /\ LimitByTokenDep(Hdr(x, a), up)
         /\ sent' = Hdr(x, a)
    /\ UNCHANGED <<now, env, startEnv, api_tokens, reconfigured, retries, fetched,
                   loopLog,
                   concVars, monVars, ldrVars, webVars>>

NextByToken ==
    \/ CreateToken
    \/ ToggleToken
    \/ TokenRequest
    \/ LimitByToken

SpecByToken == InitToken /\ [][NextByToken]_vars

----------------------------------------------------------------------------
(* Several worker processes in is_allowed at once.  Each process has its    *)
(* own FileRateLimiter on the same path; a call is split at the system      *)
(* calls: open, flock (blocking), json.load, the write-back with close.     *)

Procs == 1..NProcs

IdleProc == [pc |-> "idle", key |-> <<>>, limit |-> 0, window |-> 0, t |-> 0,
             data |-> EmptyData]

\* An abstract length of the JSON text of a dict: it grows with every key
\* and every timestamp
Size(data) ==
    LET RECURSIVE Sum(_)
        Sum(ks) == IF ks = {} THEN 0
                   ELSE LET k == CHOOSE x \in ks : TRUE
                        IN  1 + Len(data[k]) + Sum(ks \ {k})
    IN  Sum(DOMAIN data)

\* The contents a file opened with 'w' can have after json.dump(new) and
\* close: the text is written at offset 0 of whatever the file holds by
\* then, and is not truncated after it.  Over an empty file the result is
\* the new text; over a longer text the tail of the old one stays and the
\* result does not parse; over a text of the same shape either happens,
\* since the timestamps print at varying lengths.
OverwriteOutcomes(f, new) ==
    IF f.state = "empty" THEN {JsonFile(new)}
    ELSE IF f.state = "json" /\ Size(f.data) > Size(new) THEN {CorruptFile}
    ELSE {JsonFile(new), CorruptFile}

ConcInit ==
    /\ procs = [p \in Procs |-> IdleProc]
    /\ flock = {}

\* limit_token_or_ip of an anonymous request enters is_allowed: now = time.time()
Call(p) ==
    /\ procs[p].pc = "idle"
    /\ Len(admitted) < MaxReq
    /\ \E client \in ClientChoices :
         LET kr    == KeyAndRate(None, None, client, env, api_tokens, TRUE)
             parts == RateStrParts(kr.rate)
         IN  procs' = [procs EXCEPT ![p] =
                 [pc |-> "open", key |-> kr.key, limit |-> parts[1],
                  window |-> parts[3], t |-> now, data |-> EmptyData]]
    /\ UNCHANGED <<now, rlVars, flock, monVars, ldrVars, webVars, histVars>>

\* open(self.filepath, 'r+'): FileNotFoundError when there is no file
Open(p) ==
    /\ procs[p].pc = "open"
    /\ procs' = [procs EXCEPT ![p].pc =
                    IF file.state = "missing" THEN "create" ELSE "lock"]
    /\ UNCHANGED <<now, rlVars, flock, monVars, ldrVars, webVars, histVars>>

\* fcntl.flock(f.fileno(), fcntl.LOCK_EX), on either path: blocks while held
Lock(p) ==
    /\ procs[p].pc \in {"lock", "created"}
    /\ flock = {}
    /\ flock' = {p}
    /\ procs' = [procs EXCEPT ![p].pc = IF @ = "lock" THEN "load" ELSE "dump"]
    /\ UNCHANGED <<now, rlVars, monVars, ldrVars, webVars, histVars>>

\* json.load(f) under the lock
Load(p) ==
    /\ procs[p].pc = "load"
    /\ procs' = [procs EXCEPT ![p].pc = "decide", ![p].data = JsonLoad(file)]
    /\ UNCHANGED <<now, rlVars, flock, monVars, ldrVars, webVars, histVars>>

\* The rest of the with block: prune, compare, and either return False or
\* append, write back, truncate; leaving the block closes the file, which
\* releases the lock.
Decide(p) ==
    /\ procs[p].pc = "decide"
    /\ LET q == procs[p]
           r == IsAllowedLocked(q.data, q.key, q.limit, q.window, q.t)
       IN  /\ file' = IF r.write THEN JsonFile(r.data) ELSE file
           /\ admitted' = IF r.ok
                          THEN Append(admitted, [key |-> q.key, ts |-> q.t])
                          ELSE admitted
    /\ flock' = flock \ {p}
    /\ procs' = [procs EXCEPT ![p] = IdleProc]
    /\ UNCHANGED <<now, env, startEnv, api_tokens, last, reconfigured,
                   monVars, ldrVars, webVars, histVars>>

\* except FileNotFoundError: open(self.filepath, 'w') creates the file, or
\* truncates the one another process has created meanwhile
CreateOpen(p) ==
    /\ procs[p].pc = "create"
    /\ file' = EmptyFile
    /\ procs' = [procs EXCEPT ![p].pc = "created"]
    /\ UNCHANGED <<now, env, startEnv, api_tokens, last, admitted, reconfigured,
                   flock, monVars, ldrVars, webVars, histVars>>

\* json.dump({key: [now]}, f); close; return True
CreateDump(p) ==
    /\ procs[p].pc = "dump"
    /\ LET q == procs[p]
       IN  /\ file' \in OverwriteOutcomes(file, CreatedFile(q.key, q.t).data)
           /\ admitted' = Append(admitted, [key |-> q.key, ts |-> q.t])
    /\ flock' = flock \ {p}
    /\ procs' = [procs EXCEPT ![p] = IdleProc]
    /\ UNCHANGED <<now, env, startEnv, api_tokens, last, reconfigured,
                   monVars, ldrVars, webVars, histVars>>

\* The clock, with processes under way
TickConc ==
    /\ now < MaxTime
    /\ now' = now + 1
    /\ admitted' = StillRelevant(admitted, now')
    /\ UNCHANGED <<env, startEnv, file, api_tokens, last, reconfigured,
                   concVars, monVars, ldrVars, webVars, histVars>>

\* Limits of at least 1: the processes start with the same environment
ConcEnvChoices == {e \in EnvChoices : e.RATE_LIMIT_IP_PER_MIN >= 1
                                       /\ e.RATE_LIMIT_TOKEN_PER_MIN = MaxLimit}

InitConc ==
    /\ now = 0
    /\ RlInit(ConcEnvChoices)
    /\ ConcInit /\ HistIdle /\ MonIdle /\ LdrIdle /\ WebIdle

NextConc ==
    \/ TickConc
    \/ \E p \in Procs :
         \/ Call(p)
         \/ Open(p)
         \/ Lock(p)
         \/ Load(p)
         \/ Decide(p)
         \/ CreateOpen(p)
         \/ CreateDump(p)

SpecConc == InitConc /\ [][NextConc]_vars

----------------------------------------------------------------------------
(* The health monitor: monitor_loop of app/routes/netdata.py.  One step is  *)
(* one pass of the while loop: sleep, three fetches, the decision.          *)

STRESS_CPU_PCT == 85
STRESS_MEM_PCT == 90
STRESS_LOAD_MULT_X10 == 15      \* STRESS_LOAD_MULT = 1.5, in tenths
COOLDOWN_SECS == 300            \* cool_down_until = now + 300
DEFAULT_SUSTAIN_SECS == 120
DEFAULT_POLL_SEC == 5

NoMetric == -1                  \* a fetch that yielded None

\* os.cpu_count() or 1
Cores == 1

\* Mutant: a metric that was not obtained counts as over its threshold
IsHot_NoneIsHot(cpu, mem, load1x10) ==
    \/ cpu = NoMetric \/ cpu >= STRESS_CPU_PCT
    \/ mem = NoMetric \/ mem >= STRESS_MEM_PCT
    \/ load1x10 = NoMetric \/ load1x10 >= Cores * STRESS_LOAD_MULT_X10

\* Lines 316-323: hot iff some metric was obtained and reaches its
\* threshold (load1 in tenths)
IsHot(cpu, mem, load1x10) ==
    \/ cpu # NoMetric /\ cpu >= STRESS_CPU_PCT
    \/ mem # NoMetric /\ mem >= STRESS_MEM_PCT
    \/ load1x10 # NoMetric /\ load1x10 >= Cores * STRESS_LOAD_MULT_X10

\* Mutant: the sustain threshold must be exceeded, not reached
MonitorStep_StrictSustain(hs, cd, t, hot, sus) ==
    IF ~hot THEN [hot_since |-> NoTime, cool_down_until |-> cd, push |-> FALSE]
    ELSE IF t < cd THEN [hot_since |-> hs, cool_down_until |-> cd, push |-> FALSE]
    ELSE IF hs = NoTime THEN [hot_since |-> t, cool_down_until |-> cd, push |-> FALSE]
    ELSE IF t - hs > sus
         THEN [hot_since |-> t, cool_down_until |-> t + COOLDOWN_SECS, push |-> TRUE]
         ELSE [hot_since |-> hs, cool_down_until |-> cd, push |-> FALSE]

\* Mutant: a sample that is not hot leaves hot_since as it is
MonitorStep_NoReset(hs, cd, t, hot, sus) ==
    IF ~hot THEN [hot_since |-> hs, cool_down_until |-> cd, push |-> FALSE]
    ELSE IF t < cd THEN [hot_since |-> hs, cool_down_until |-> cd, push |-> FALSE]
    ELSE IF hs = NoTime THEN [hot_since |-> t, cool_down_until |-> cd, push |-> FALSE]
    ELSE IF t - hs >= sus
         THEN [hot_since |-> t, cool_down_until |-> t + COOLDOWN_SECS, push |-> TRUE]
         ELSE [hot_since |-> hs, cool_down_until |-> cd, push |-> FALSE]

\* Mutant: the cooldown is recorded but not consulted
MonitorStep_NoCooldownCheck(hs, cd, t, hot, sus) ==
    IF ~hot THEN [hot_since |-> NoTime, cool_down_until |-> cd, push |-> FALSE]
    ELSE IF hs = NoTime THEN [hot_since |-> t, cool_down_until |-> cd, push |-> FALSE]
    ELSE IF t - hs >= sus
         THEN [hot_since |-> t, cool_down_until |-> t + COOLDOWN_SECS, push |-> TRUE]
         ELSE [hot_since |-> hs, cool_down_until |-> cd, push |-> FALSE]

\* Mutant: a notification leaves hot_since where it was
MonitorStep_NoReanchor(hs, cd, t, hot, sus) ==
    IF ~hot THEN [hot_since |-> NoTime, cool_down_until |-> cd, push |-> FALSE]
    ELSE IF t < cd THEN [hot_since |-> hs, cool_down_until |-> cd, push |-> FALSE]
    ELSE IF hs = NoTime THEN [hot_since |-> t, cool_down_until |-> cd, push |-> FALSE]
    ELSE IF t - hs >= sus
         THEN [hot_since |-> hs, cool_down_until |-> t + COOLDOWN_SECS, push |-> TRUE]
         ELSE [hot_since |-> hs, cool_down_until |-> cd, push |-> FALSE]

\* Lines 325-337: the decision of one cycle from the locals hs (hot_since)
\* and cd (cool_down_until), the time t and the sample: the new locals and
\* whether _pushcut is called.
MonitorStep(hs, cd, t, hot, sus) ==
    IF ~hot THEN [hot_since |-> NoTime, cool_down_until |-> cd, push |-> FALSE]
    ELSE IF t < cd THEN [hot_since |-> hs, cool_down_until |-> cd, push |-> FALSE]
    ELSE IF hs = NoTime THEN [hot_since |-> t, cool_down_until |-> cd, push |-> FALSE]
    ELSE IF t - hs >= sus
         THEN [hot_since |-> t, cool_down_until |-> t + COOLDOWN_SECS, push |-> TRUE]
         ELSE [hot_since |-> hs, cool_down_until |-> cd, push |-> FALSE]

\* asyncio.sleep(max(1, NETDATA_POLL_SEC))
SleepSecs(p) == IF p > 1 THEN p ELSE 1

CpuChoices  == {NoMetric, STRESS_CPU_PCT - 1, STRESS_CPU_PCT}
MemChoices  == {NoMetric, STRESS_MEM_PCT - 1, STRESS_MEM_PCT}
LoadChoices == {NoMetric, Cores * STRESS_LOAD_MULT_X10 - 1, Cores * STRESS_LOAD_MULT_X10}

SustainChoices == {0, DEFAULT_SUSTAIN_SECS, COOLDOWN_SECS + DEFAULT_SUSTAIN_SECS}
\* Poll intervals of a minute and more: with the default of 5 seconds the
\* 300 seconds of a cooldown take sixty cycles
PollChoices    == {12 * DEFAULT_POLL_SEC, 18 * DEFAULT_POLL_SEC}

\* History of the loop:
\*   samples   whether a sample was decided yet
\*   lastAt    time of the last decided sample
\*   firstAt   time of the first decided sample, while allHot
\*   allHot    every decided sample was hot
\*   runStart  first sample of the present run of hot samples (NoTime: none)
\*   runsShort every run of hot samples lasted less than sustain so far
\*   alerts    number of calls of _pushcut
\*   alertAt   time of the last call of _pushcut (NoTime: none)
\*   alertCd   cool_down_until as it was when that call was made
\*   prevAt    time of the call of _pushcut before the last (NoTime: none)
NoHistory ==
    [samples |-> FALSE, lastAt |-> 0, firstAt |-> 0, allHot |-> TRUE,
     runStart |-> NoTime, runsShort |-> TRUE, alerts |-> 0, alertAt |-> NoTime,
     alertCd |-> 0, prevAt |-> NoTime]

MonInit ==
    /\ hot_since = NoTime
    /\ cool_down_until = 0
    /\ sustain \in SustainChoices
    /\ poll \in PollChoices
    /\ mon = NoHistory

\* What the three fetches of a cycle can yield: <<cpu, mem, load1x10>>
Feed == CpuChoices \X MemChoices \X LoadChoices

\* Mutant: no try around the post
Pushcut_Propagates(url, fails) ==
    [posts |-> url /\ ~fails, raises |-> url /\ fails]

\* _pushcut, lines 293-299.  url: PUSHCUT_URL is set; fails: http.post
\* raises.  Whether the notification was posted and whether an exception
\* leaves _pushcut
Pushcut(url, fails) ==
    [posts |-> url /\ ~fails, raises |-> FALSE]

\* One pass of the loop that reaches the decision, lines 309-337, with the
\* metrics drawn from feed, the fate of a post drawn from sinks, and the
\* clock not beyond maxT.  An exception leaving _pushcut (line 335) would
\* reach the except clause before the assignments of lines 336-337.
SampleVia(feed, sinks, maxT) ==
    \E latency \in 0..MaxLatency, m \in feed, fails \in sinks :
        LET t   == now + SleepSecs(poll) + latency
            hot == IsHot(m[1], m[2], m[3])
            d   == MonitorStep(hot_since, cool_down_until, t, hot, sustain)
            r   == IF d.push /\ Pushcut(TRUE, fails).raises
                   THEN [d EXCEPT !.hot_since = hot_since,
                                  !.cool_down_until = cool_down_until]
                   ELSE d
            run == IF ~hot THEN NoTime
                   ELSE IF mon.runStart = NoTime THEN t ELSE mon.runStart
            all == mon.allHot /\ hot
        IN  /\ t <= maxT
            /\ now' = t
            /\ hot_since' = r.hot_since
            /\ cool_down_until' = r.cool_down_until
            /\ mon' = [samples   |-> TRUE,
                       lastAt    |-> t,
                       firstAt   |-> IF ~all THEN 0
                                     ELSE IF mon.samples THEN mon.firstAt ELSE t,
                       allHot    |-> all,
                       runStart  |-> run,
                       runsShort |-> mon.runsShort /\ (hot => t - run < sustain),
                       alerts    |-> IF r.push THEN mon.alerts + 1 ELSE mon.alerts,
                       alertAt   |-> IF r.push THEN t ELSE mon.alertAt,
                       alertCd   |-> IF r.push THEN cool_down_until ELSE mon.alertCd,
                       prevAt    |-> IF r.push THEN mon.alertAt ELSE mon.prevAt]
            /\ UNCHANGED <<sustain, poll, rlVars, concVars, ldrVars>>

\* The same with every post delivered
SampleOf(feed, maxT) == SampleVia(feed, {FALSE}, maxT)

Sample == SampleOf(Feed, MaxMonTime)

MonitorCycle == Sample /\ UNCHANGED <<webVars, histVars>>

\* A pass in which a fetch result makes the try block raise before the
\* decision: the except clause logs and the loop goes on with its locals
RaiseWithin(maxT) ==
    \E latency \in 0..MaxLatency :
        LET t == now + SleepSecs(poll) + latency
        IN  /\ t <= maxT
            /\ now' = t
            /\ UNCHANGED <<hot_since, cool_down_until, sustain, poll, mon,
                           rlVars, concVars, ldrVars>>

Raise == RaiseWithin(MaxMonTime)

CycleRaises == Raise /\ UNCHANGED <<webVars, histVars>>

RlIdle ==
    /\ env = StartEnv /\ startEnv = StartEnv /\ file = NoFile
    /\ api_tokens = [t \in Tokens |-> "absent"]
    /\ last = NoRequest /\ admitted = <<>> /\ reconfigured = 0

InitMon ==
    /\ now = 0
    /\ MonInit
    /\ RlIdle /\ ConcIdle /\ HistIdle /\ LdrIdle /\ WebIdle

NextMon ==
    \/ MonitorCycle
    \/ CycleRaises

SpecMon == InitMon /\ [][NextMon]_vars

----------------------------------------------------------------------------
(* The monitor under a host that stays under stress: every sample crosses   *)
(* a threshold and no cycle raises.  The clock runs long enough for a       *)
(* sample 300 seconds after a notification under the longest sustain.       *)

MaxHotTime == 800   \* the clock of this specification stops here

HotFeed == {m \in Feed : IsHot(m[1], m[2], m[3])}

HotCycle == SampleOf(HotFeed, MaxHotTime) /\ UNCHANGED <<webVars, histVars>>

NextHot == HotCycle

SpecHot == InitMon /\ [][NextHot]_vars

----------------------------------------------------------------------------
(* The monitor with the metrics of each sample kept: fetched is what the    *)
(* three fetches of the last decided cycle yielded.                         *)

MaxFeedTime == 300  \* the clock of this specification stops here

NoFetch == <<NoMetric, NoMetric, NoMetric>>

FeedCycle ==
    /\ \E m \in Feed : SampleOf({m}, MaxFeedTime) /\ fetched' = m
    /\ UNCHANGED <<webVars, retries, sent, loopLog>>

FeedCycleRaises == RaiseWithin(MaxFeedTime) /\ UNCHANGED <<webVars, histVars>>

InitFeed ==
    /\ now = 0
    /\ MonInit
    /\ retries = <<>> /\ sent = <<>> /\ fetched = NoFetch /\ loopLog = <<>>
    /\ RlIdle /\ ConcIdle /\ LdrIdle /\ WebIdle

NextFeed ==
    \/ FeedCycle
    \/ FeedCycleRaises

SpecFeed == InitFeed /\ [][NextFeed]_vars

----------------------------------------------------------------------------
(* How the monitor task of one process comes to run.  monTask.pc is "none"
   (no task), "skipped" (the startup hook ran and created none),
   "scheduled" (asyncio.create_task(monitor_loop()) was called), "running"
   (inside the while loop) or "returned"; polled: the loop has asked the
   metrics API; posted: _pushcut has posted to PUSHCUT_URL. *)

\* Module-level configuration, lines 27-29: read once at import, the same
\* environment for every worker process
MonitorCfgChoices == [NETDATA_MONITOR : BOOLEAN, PUSHCUT_URL : BOOLEAN]

NoTask == [pc |-> "none", polled |-> FALSE, posted |-> FALSE]

\* Line 350: if NETDATA_MONITOR and PUSHCUT_URL
StartsMonitor(cfg) == cfg.NETDATA_MONITOR /\ cfg.PUSHCUT_URL

\* Mutant: the loop looks at NETDATA_MONITOR only
MonitorDisabled_IgnoresPushcut(cfg) == ~cfg.NETDATA_MONITOR

\* Line 302: if not (NETDATA_MONITOR and PUSHCUT_URL)
MonitorDisabled(cfg) == ~(cfg.NETDATA_MONITOR /\ cfg.PUSHCUT_URL)

\* Lines 294-297: _pushcut returns at once when PUSHCUT_URL is empty
PushcutPosts(cfg) == cfg.PUSHCUT_URL

\* Lines 348-352: the startup hook registered by mount_monitor
StartupHook ==
    /\ monTask.pc = "none"
    /\ monTask' = [monTask EXCEPT !.pc = IF StartsMonitor(monitorCfg)
                                         THEN "scheduled" ELSE "skipped"]
    /\ UNCHANGED <<now, rlVars, concVars, monVars, ldrVars, proxied, served, histVars>>

\* monitor_loop is a coroutine of the module: a caller other than the hook
\* schedules it without looking at the configuration
ScheduleLoop ==
    /\ monTask.pc = "none"
    /\ monTask' = [monTask EXCEPT !.pc = "scheduled"]
    /\ UNCHANGED <<now, rlVars, concVars, monVars, ldrVars, proxied, served, histVars>>

\* Lines 301-306: the task starts to run
EnterLoop ==
    /\ monTask.pc = "scheduled"
    /\ monTask' = [monTask EXCEPT !.pc = IF MonitorDisabled(monitorCfg)
                                         THEN "returned" ELSE "running"]
    /\ UNCHANGED <<now, rlVars, concVars, monVars, ldrVars, proxied, served, histVars>>

\* Lines 308-337 in the running task
LoopCycle ==
    /\ monTask.pc = "running"
    /\ Sample
    /\ monTask' = [monTask EXCEPT
                     !.polled = TRUE,
                     !.posted = @ \/ (mon'.alerts > mon.alerts
                                        /\ PushcutPosts(monitorCfg))]
    /\ UNCHANGED <<proxied, served, histVars>>

\* Lines 308-340 in the running task, the try block raising
LoopRaises ==
    /\ monTask.pc = "running"
    /\ Raise
    /\ monTask' = [monTask EXCEPT !.polled = TRUE]
    /\ UNCHANGED <<proxied, served, histVars>>

InitStart ==
    /\ now = 0
    /\ MonInit
    /\ monitorCfg \in MonitorCfgChoices
    /\ workers = <<>> /\ leaderLock = {}
    /\ monTask = NoTask /\ proxied = <<>> /\ served = <<>>
    /\ RlIdle /\ ConcIdle /\ HistIdle

NextStart ==
    \/ StartupHook
    \/ ScheduleLoop
    \/ EnterLoop
    \/ LoopCycle
    \/ LoopRaises

SpecStart == InitStart /\ [][NextStart]_vars

----------------------------------------------------------------------------
(* The running loop with cycles that raise and posts that fail.             *)
(* loopLog.raisedAt is the time of the last cycle that raised,              *)
(* loopLog.failedAt the time of the last notification whose post raised.    *)

MaxLoopTime == 200  \* the clock of this specification stops here

NoLog == [raisedAt |-> NoTime, failedAt |-> NoTime]

\* A host at rest or with the CPU at its threshold
LoopFeed == {NoFetch, <<STRESS_CPU_PCT, NoMetric, NoMetric>>}

\* Lines 308-337 in the running task
LoopSample ==
    /\ monTask.pc = "running"
    /\ \E fails \in BOOLEAN :
         /\ SampleVia(LoopFeed, {fails}, MaxLoopTime)
         /\ loopLog' = IF mon'.alerts > mon.alerts /\ fails
                       THEN [loopLog EXCEPT !.failedAt = now']
                       ELSE loopLog
         /\ monTask' = [monTask EXCEPT
                          !.polled = TRUE,
                          !.posted = @ \/ (mon'.alerts > mon.alerts
                                             /\ Pushcut(TRUE, fails).posts)]
    /\ UNCHANGED <<proxied, served, retries, sent, fetched>>

\* Mutant: an exception in the try block ends the loop
LoopError_Terminates ==
    /\ monTask.pc = "running"
    /\ RaiseWithin(MaxLoopTime)
    /\ loopLog' = [loopLog EXCEPT !.raisedAt = now']
    /\ monTask' = [monTask EXCEPT !.polled = TRUE, !.pc = "returned"]
    /\ UNCHANGED <<proxied, served, retries, sent, fetched>>

\* Lines 308-340 in the running task, the try block raising: except
\* Exception, log, continue
LoopError ==
    /\ monTask.pc = "running"
    /\ RaiseWithin(MaxLoopTime)
    /\ loopLog' = [loopLog EXCEPT !.raisedAt = now']
    /\ monTask' = [monTask EXCEPT !.polled = TRUE]
    /\ UNCHANGED <<proxied, served, retries, sent, fetched>>

InitLoop ==
    /\ now = 0
    /\ MonInit
    /\ monitorCfg = [NETDATA_MONITOR |-> TRUE, PUSHCUT_URL |-> TRUE]
    /\ workers = <<>> /\ leaderLock = {}
    /\ monTask = NoTask /\ proxied = <<>> /\ served = <<>>
    /\ retries = <<>> /\ sent = <<>> /\ fetched = <<>> /\ loopLog = NoLog
    /\ RlIdle /\ ConcIdle

NextLoop ==
    \/ StartupHook
    \/ EnterLoop
    \/ LoopSample
    \/ LoopError

\* The event loop runs a scheduled task and resumes it when its sleep and
\* its fetches are over
SpecLoop == InitLoop /\ [][NextLoop]_vars /\ WF_vars(NextLoop)

----------------------------------------------------------------------------
(* Sibling worker processes and the leader election guard.

   mount_monitor (netdata.py, lines 343-352) registers a startup hook that
   starts monitor_loop when NETDATA_MONITOR and PUSHCUT_URL are set.  The
   application factory that calls it, and the guard it calls first, are not
   among the sources under src/: the guard is modelled from section 4.4 of
   the specification (tryAcquire), the hook from the source. *)

NWorkers == 3
Workers  == 1..NWorkers

\* pc: "boot" (process started, nothing decided), "elected" (tryAcquire has
\* returned, its result is in leader), "up" (startup hooks have run),
\* "stopping" (graceful shutdown has cancelled the background task),
\* "down" (process gone)
BootWorker == [pc |-> "boot", leader |-> FALSE, monitoring |-> FALSE]

\* Mutant: the guard of a platform without advisory locks, on every platform
TryAcquire_AlwaysTrue(holders) == TRUE

\* Section 4.4: a non-blocking exclusive advisory lock on a fixed path;
\* true iff no other process holds it
TryAcquire(holders) == holders = {}

LdrInit ==
    /\ workers = [w \in Workers |-> BootWorker]
    /\ leaderLock = {}
    /\ monitorCfg \in MonitorCfgChoices

\* The worker calls tryAcquire once, at start
Elect(w) ==
    /\ workers[w].pc = "boot"
    /\ LET got == TryAcquire(leaderLock)
       IN  /\ workers' = [workers EXCEPT ![w] = [@ EXCEPT !.pc = "elected",
                                                          !.leader = got]]
           /\ leaderLock' = IF got THEN leaderLock \cup {w} ELSE leaderLock
    /\ UNCHANGED <<now, monitorCfg, rlVars, concVars, monVars, webVars, histVars>>

\* Lines 348-352: the startup hook of mount_monitor, attached by the leader
\* only; a worker that got false does not call mount_monitor
StartMonitor(w) ==
    /\ workers[w].pc = "elected"
    /\ LET start == /\ workers[w].leader
                    /\ monitorCfg.NETDATA_MONITOR /\ monitorCfg.PUSHCUT_URL
       IN  workers' = [workers EXCEPT ![w] = [@ EXCEPT !.pc = "up",
                                                       !.monitoring = start]]
    /\ UNCHANGED <<now, leaderLock, monitorCfg, rlVars, concVars, monVars, webVars, histVars>>

\* Section 5: at shutdown the monitor task is cancelled ...
CancelMonitor(w) ==
    /\ workers[w].pc = "up"
    /\ workers' = [workers EXCEPT ![w] = [@ EXCEPT !.pc = "stopping",
                                                   !.monitoring = FALSE]]
    /\ UNCHANGED <<now, leaderLock, monitorCfg, rlVars, concVars, monVars, webVars, histVars>>

\* ... and the lock explicitly released before the process exits
Release(w) ==
    /\ workers[w].pc = "stopping"
    /\ workers' = [workers EXCEPT ![w] = [@ EXCEPT !.pc = "down",
                                                   !.leader = FALSE]]
    /\ leaderLock' = leaderLock \ {w}
    /\ UNCHANGED <<now, monitorCfg, rlVars, concVars, monVars, webVars, histVars>>

\* Section 4.4: a process that dies takes its tasks with it, and the
\* operating system releases the lock when its handle is closed
Crash(w) ==
    /\ workers[w].pc \in {"elected", "up", "stopping"}
    /\ workers' = [workers EXCEPT ![w] = [pc |-> "down", leader |-> FALSE,
                                          monitoring |-> FALSE]]
    /\ leaderLock' = leaderLock \ {w}
    /\ UNCHANGED <<now, monitorCfg, rlVars, concVars, monVars, webVars, histVars>>

\* The process manager starts the worker again
Restart(w) ==
    /\ workers[w].pc = "down"
    /\ workers' = [workers EXCEPT ![w] = BootWorker]
    /\ UNCHANGED <<now, leaderLock, monitorCfg, rlVars, concVars, monVars, webVars, histVars>>

InitLeader ==
    /\ now = 0
    /\ LdrInit
    /\ RlIdle /\ ConcIdle /\ HistIdle /\ MonIdle /\ WebIdle

NextLeader ==
    \E w \in Workers :
        \/ Elect(w)
        \/ StartMonitor(w)
        \/ CancelMonitor(w)
        \/ Release(w)
        \/ Crash(w)
        \/ Restart(w)

SpecLeader == InitLeader /\ [][NextLeader]_vars

----------------------------------------------------------------------------
(* The reverse proxy under /netdata (netdata.py, lines 42-212) and the admin
   guard of its router (auth.py).  A set of headers is a function from
   names to values, as the dict the code builds; a body is a sequence of
   atoms, each a piece of text the rewrite treats as a whole. *)

MaxHtml == 2        \* atoms in a body the upstream returns

\* Lines 42-51
HOP_BY_HOP_WithoutUpgrade ==
    {"connection", "keep-alive", "proxy-authenticate", "proxy-authorization",
     "te", "trailers", "transfer-encoding"}

HOP_BY_HOP ==
    {"connection", "keep-alive", "proxy-authenticate", "proxy-authorization",
     "te", "trailers", "transfer-encoding", "upgrade"}

\* Line 27, the default
NETDATA_BASE == "http://127.0.0.1:19999"

NoHeaders == [k \in {} |-> ""]

\* request.headers.items() and upstream.headers.items(): the names come
\* lower-cased from Starlette and from httpx, whatever was on the wire
Items(wire) ==
    [k \in {Lower(n) : n \in DOMAIN wire} |->
        wire[CHOOSE n \in DOMAIN wire : Lower(n) = k]]

\* Lines 108 and 148: {k: v for k, v in ... if k.lower() not in _HOP_BY_HOP}
StripHopByHop(items) ==
    [k \in {n \in DOMAIN items : Lower(n) \notin HOP_BY_HOP} |-> items[k]]

\* dict.pop(k, None)
Pop(d, k) == [n \in DOMAIN d \ {k} |-> d[n]]

\* upstream.headers.get(name, default): httpx looks names up lower-cased
Get(wire, name, default) ==
    IF name \in DOMAIN Items(wire) THEN Items(wire)[name] ELSE default

\* Lines 108-111: the headers handed to client.request
FwdHeaders(wire) == Pop(StripHopByHop(Items(wire)), "accept-encoding")

\* Line 157: the text re.sub puts after the first <head...>; the quotes of
\* the replacement template keep their backslashes
BaseTag == "\n  <base href=\\\"/netdata/\\\">"
\* Lines 168-192
Shim    == "\n<script>...</script>\n"
RootRefs == {"href=\"/", "src=\"/", "action=\"/"}

\* "<head" in html: the test is case-sensitive
HasHead(html) == \E i \in 1..Len(html) : html[i] = "<head>"
\* "<base" in html
HasBase(html) == \E i \in 1..Len(html) : html[i] \in {"<base>", BaseTag}
\* r"(<head[^>]*>)" with re.IGNORECASE
IsOpenHead(a)  == Lower(a) = "<head>"
\* r"</head>" with re.IGNORECASE
IsCloseHead(a) == Lower(a) = "</head>"

\* re.sub(..., count=1): after the first opening head tag of either case
InsertBase(html) ==
    IF \E i \in 1..Len(html) : IsOpenHead(html[i])
    THEN LET i == CHOOSE i \in 1..Len(html) :
                     /\ IsOpenHead(html[i])
                     /\ \A j \in 1..(i - 1) : ~IsOpenHead(html[j])
         IN  SubSeq(html, 1, i) \o <<BaseTag>> \o SubSeq(html, i + 1, Len(html))
    ELSE html

\* Lines 160-162: the three str.replace calls
RECURSIVE PrefixRoots(_)
PrefixRoots(html) ==
    IF html = <<>> THEN <<>>
    ELSE IF Head(html) \in RootRefs
         THEN <<Head(html), "netdata/">> \o PrefixRoots(Tail(html))
         ELSE <<Head(html)>> \o PrefixRoots(Tail(html))

\* Line 195: re.sub(r"</head>", shim + "</head>", html, flags=re.IGNORECASE),
\* every closing head tag, rewritten in lower case
RECURSIVE InjectShim(_)
InjectShim(html) ==
    IF html = <<>> THEN <<>>
    ELSE IF IsCloseHead(Head(html))
         THEN <<Shim, "</head>">> \o InjectShim(Tail(html))
         ELSE <<Head(html)>> \o InjectShim(Tail(html))

\* Lines 153-199
RewriteHtml(html0) ==
    LET html1 == IF HasHead(html0) /\ ~HasBase(html0)
                 THEN InsertBase(html0) ELSE html0
        html2 == PrefixRoots(html1)
    IN  IF \E i \in 1..Len(html2) : IsCloseHead(html2[i])
        THEN InjectShim(html2)
        ELSE Append(html2, Shim)

\* "text/html" in ct, ct lower-cased
IsHtml(ct) == Lower(ct) \in {"text/html", "text/html; charset=utf-8"}

\* Lines 59-71 and 135-141
Page(title, body) == <<"<title>", title, "</title>">> \o body
Hint == <<"<h2>Netdata upstream unreachable</h2>", "Tried:", NETDATA_BASE>>

\* Mutant: only a refused connection is caught
IsRequestError_ConnectOnly(kind) == kind = "ConnectError"

\* Line 133: except httpx.RequestError, the base class of the connection
\* and timeout errors
IsRequestError(kind) == kind \in {"ConnectError", "ReadTimeout"}

NoOutcome == [kind |-> "none", status |-> 0, headers |-> NoHeaders, content |-> <<>>]

\* Mutant: the rewritten body goes out with the upstream's content-length
ProxyVia_KeepsLength(wire, outcome, raises) ==
    LET fwd  == FwdHeaders(wire)
        ct   == Get(outcome.headers, "content-type", "")
        resp == StripHopByHop(Items(outcome.headers))
    IN  IF outcome.kind # "response"
        THEN IF IsRequestError(outcome.kind)
             THEN [fwd |-> fwd, status |-> 502, headers |-> NoHeaders,
                   body |-> Page("Netdata upstream unreachable", Hint),
                   path |-> "unreachable"]
             ELSE [fwd |-> fwd, status |-> 500, headers |-> NoHeaders,
                   body |-> <<>>, path |-> "raised"]
        ELSE IF IsHtml(ct) /\ outcome.content # <<>> /\ ~raises
        THEN [fwd |-> fwd, status |-> outcome.status,
              headers |-> resp,
              body |-> RewriteHtml(outcome.content), path |-> "rewritten"]
        ELSE IF "content-length" \in {Lower(k) : k \in DOMAIN resp}
        THEN [fwd |-> fwd, status |-> outcome.status, headers |-> resp,
              body |-> outcome.content, path |-> "length_known"]
        ELSE [fwd |-> fwd, status |-> outcome.status, headers |-> resp,
              body |-> outcome.content, path |-> "streamed"]

\* Mutant: whatever is not rewritten is streamed
ProxyVia_AlwaysStreams(wire, outcome, raises) ==
    LET fwd  == FwdHeaders(wire)
        ct   == Get(outcome.headers, "content-type", "")
        resp == StripHopByHop(Items(outcome.headers))
    IN  IF outcome.kind # "response"
        THEN IF IsRequestError(outcome.kind)
             THEN [fwd |-> fwd, status |-> 502, headers |-> NoHeaders,
                   body |-> Page("Netdata upstream unreachable", Hint),
                   path |-> "unreachable"]
             ELSE [fwd |-> fwd, status |-> 500, headers |-> NoHeaders,
                   body |-> <<>>, path |-> "raised"]
        ELSE IF IsHtml(ct) /\ outcome.content # <<>> /\ ~raises
        THEN [fwd |-> fwd, status |-> outcome.status,
              headers |-> Pop(resp, "content-length"),
              body |-> RewriteHtml(outcome.content), path |-> "rewritten"]
        ELSE [fwd |-> fwd, status |-> outcome.status, headers |-> resp,
              body |-> outcome.content, path |-> "streamed"]

\* _proxy, lines 106-212.  path names the return statement taken; raises
\* says that a statement of the rewrite (lines 153-199) raised, which the
\* except clause of lines 205-206 logs before the pass-through of 208-212.
ProxyVia(wire, outcome, raises) ==
    LET fwd  == FwdHeaders(wire)
        ct   == Get(outcome.headers, "content-type", "")
        resp == StripHopByHop(Items(outcome.headers))
    IN  IF outcome.kind # "response"
        THEN IF IsRequestError(outcome.kind)
             THEN [fwd |-> fwd, status |-> 502, headers |-> NoHeaders,
                   body |-> Page("Netdata upstream unreachable", Hint),
                   path |-> "unreachable"]
             ELSE [fwd |-> fwd, status |-> 500, headers |-> NoHeaders,
                   body |-> <<>>, path |-> "raised"]
        ELSE IF IsHtml(ct) /\ outcome.content # <<>> /\ ~raises
        THEN [fwd |-> fwd, status |-> outcome.status,
              headers |-> Pop(resp, "content-length"),
              body |-> RewriteHtml(outcome.content), path |-> "rewritten"]
        ELSE IF "content-length" \in {Lower(k) : k \in DOMAIN resp}
        THEN [fwd |-> fwd, status |-> outcome.status, headers |-> resp,
              body |-> outcome.content, path |-> "length_known"]
        ELSE [fwd |-> fwd, status |-> outcome.status, headers |-> resp,
              body |-> outcome.content, path |-> "streamed"]

\* _proxy when no statement of the rewrite raises
Proxy(wire, outcome) == ProxyVia(wire, outcome, FALSE)

\* auth.py, lines 20-24 and 77-80, behind Depends(manager): the session
\* cookie is absent, does not verify, names another user, or names the admin
Sessions == {"none", "invalid", "other", "admin"}

\* load_user
LoadUser(session) == IF session = "admin" THEN Some(<<"admin">>) ELSE None

\* require_admin: 401 from the login manager without a loaded user, 401
\* from line 79 for a user that is not the admin
RequireAdmin(session) ==
    IF session \in {"none", "invalid"} THEN 401
    ELSE IF ~LoadUser(session).some THEN 401
    ELSE IF LoadUser(session).val # <<"admin">> THEN 401
    ELSE 200

NetdataRoutes == {"netdata_home", "netdata_ui_compat", "netdata_api", "netdata_asset"}

\* Mutant: the API route is registered without the router's dependency
Dependencies_ApiOpen(route) ==
    IF route = "netdata_api" THEN {} ELSE {"require_admin"}

\* Line 56: APIRouter(dependencies=[Depends(require_admin)]), for every route
Dependencies(route) == {"require_admin"}

HtmlAtoms ==
    {"<head>", "<HEAD>", "</head>", "</HEAD>", "<base>", "href=\"/", "action=\"/", "x"}

RECURSIVE SeqsUpTo(_, _)
SeqsUpTo(S, n) ==
    IF n = 0 THEN {<<>>}
    ELSE LET shorter == SeqsUpTo(S, n - 1)
         IN  shorter \cup {Append(q, a) : q \in shorter, a \in S}

ContentChoices == SeqsUpTo(HtmlAtoms, MaxHtml)

\* Headers of an inbound request, as sent
RequestHeaderChoices ==
    { NoHeaders,
      [k \in {"Connection", "TE", "Accept-Encoding", "Cookie"} |-> "v"],
      [k \in {"upgrade", "proxy-authorization", "keep-alive", "accept"} |-> "v"] }

\* Headers of an upstream response, as sent
UpstreamHeaderChoices ==
    { NoHeaders,
      ("Content-Type" :> "TEXT/HTML; charset=UTF-8") @@
        [k \in {"Transfer-Encoding", "Connection", "Trailers"} |-> "v"],
      ("content-type" :> "text/html") @@
        [k \in {"Content-Length", "Keep-Alive", "TE"} |-> "v"],
      ("content-type" :> "application/json") @@
        [k \in {"content-length", "Upgrade", "Proxy-Authenticate"} |-> "v"],
      ("content-type" :> "application/json") @@
        [k \in {"proxy-authorization", "x-frame-options"} |-> "v"] }

OutcomeChoices ==
    {[kind |-> k, status |-> 0, headers |-> NoHeaders, content |-> <<>>] :
        k \in {"ConnectError", "ReadTimeout", "InvalidURL"}}
    \cup [kind : {"response"}, status : {200, 404},
          headers : UpstreamHeaderChoices, content : ContentChoices]

NoExchange ==
    [session |-> "none", route |-> "none", called |-> FALSE,
     outcome |-> NoOutcome, fwd |-> NoHeaders, status |-> 0,
     headers |-> NoHeaders, body |-> <<>>, path |-> "none"]

\* One request to a route of the router: the dependencies, then the handler
NetdataRequest ==
    /\ proxied = NoExchange
    /\ \E session \in Sessions, route \in NetdataRoutes :
         IF "require_admin" \in Dependencies(route) /\ RequireAdmin(session) # 200
         THEN proxied' = [NoExchange EXCEPT !.session = session, !.route = route,
                                            !.status = 401, !.path = "unauthorized"]
         ELSE IF route \in {"netdata_home", "netdata_ui_compat"}
         THEN proxied' = [NoExchange EXCEPT !.session = session, !.route = route,
                                            !.status = 302, !.path = "redirect"]
         ELSE \E wire \in RequestHeaderChoices, outcome \in OutcomeChoices :
                LET r == Proxy(wire, outcome)
                IN  proxied' = [session |-> session, route |-> route,
                                called |-> TRUE, outcome |-> outcome,
                                fwd |-> r.fwd, status |-> r.status,
                                headers |-> r.headers, body |-> r.body,
                                path |-> r.path]
    /\ UNCHANGED <<now, rlVars, concVars, monVars, ldrVars, monTask, served, histVars>>

InitProxy ==
    /\ now = 0
    /\ proxied = NoExchange /\ monTask = <<>> /\ served = <<>>
    /\ RlIdle /\ ConcIdle /\ HistIdle /\ MonIdle /\ LdrIdle

\* The response has gone out; the routes keep nothing between requests
ResponseSent ==
    /\ proxied # NoExchange
    /\ proxied' = NoExchange
    /\ UNCHANGED <<now, rlVars, concVars, monVars, ldrVars, monTask, served, histVars>>

NextProxy ==
    \/ NetdataRequest
    \/ ResponseSent

SpecProxy == InitProxy /\ [][NextProxy]_vars

----------------------------------------------------------------------------
(* The exchange of _proxy with the upstream in full: the request it hands
   to client.request (lines 108-132) and the response it builds from the
   answer (lines 143-212).  A query string is the sequence of its
   name/value pairs. *)

\* dict(request.query_params), line 129: one value for each name, the one
\* of the last pair with that name
DictOf(pairs) ==
    [k \in {pairs[i][1] : i \in 1..Len(pairs)} |->
        pairs[CHOOSE i \in 1..Len(pairs) :
                 /\ pairs[i][1] = k
                 /\ \A j \in (i + 1)..Len(pairs) : pairs[j][1] # k][2]]

\* Lines 113-115 and 126-132: the arguments of client.request
UpstreamRequest(request) ==
    [method  |-> request.method,
     params  |-> DictOf(request.query),
     headers |-> FwdHeaders(request.headers),
     content |-> IF request.method \notin {"GET", "HEAD"}
                 THEN Some(request.body) ELSE None]

MethodChoices == {"GET", "HEAD", "POST", "DELETE"}

QueryChoices ==
    { <<>>,
      <<<<"chart", "system.cpu">>>>,
      <<<<"chart", "system.cpu">>, <<"after", "-60">>>>,
      <<<<"dimensions", "user">>, <<"dimensions", "system">>>> }

BodyChoices == {<<>>, <<"payload">>}

FwdContentChoices == SeqsUpTo({"<head>", "</HEAD>", "href=\"/", "x"}, MaxHtml)

FwdOutcomeChoices ==
    {[kind |-> k, status |-> 0, headers |-> NoHeaders, content |-> <<>>] :
        k \in {"ConnectError", "InvalidURL"}}
    \cup [kind : {"response"}, status : {200, 404},
          headers : UpstreamHeaderChoices, content : FwdContentChoices]

NoRequestLine == [method |-> "none", query |-> <<>>, headers |-> NoHeaders, body |-> <<>>]

NoForward ==
    [request |-> NoRequestLine, upstream |-> UpstreamRequest(NoRequestLine),
     outcome |-> NoOutcome, raises |-> FALSE, status |-> 0,
     headers |-> NoHeaders, body |-> <<>>, path |-> "none"]

\* One call of _proxy by netdata_api or netdata_asset for an admin
Forward ==
    /\ proxied = NoForward
    /\ \E method \in MethodChoices, query \in QueryChoices, body \in BodyChoices,
          wire \in RequestHeaderChoices, outcome \in FwdOutcomeChoices,
          raises \in BOOLEAN :
         LET request == [method |-> method, query |-> query,
                         headers |-> wire, body |-> body]
             r == ProxyVia(wire, outcome, raises)
         IN  proxied' = [request |-> request, upstream |-> UpstreamRequest(request),
                         outcome |-> outcome, raises |-> raises,
                         status |-> r.status, headers |-> r.headers,
                         body |-> r.body, path |-> r.path]
    /\ UNCHANGED <<now, rlVars, concVars, monVars, ldrVars, monTask, served, histVars>>

\* The response has gone out
ForwardSent ==
    /\ proxied # NoForward
    /\ proxied' = NoForward
    /\ UNCHANGED <<now, rlVars, concVars, monVars, ldrVars, monTask, served, histVars>>

InitFwd ==
    /\ now = 0
    /\ proxied = NoForward /\ monTask = <<>> /\ served = <<>>
    /\ RlIdle /\ ConcIdle /\ HistIdle /\ MonIdle /\ LdrIdle

NextFwd ==
    \/ Forward
    \/ ForwardSent

SpecFwd == InitFwd /\ [][NextFwd]_vars

----------------------------------------------------------------------------
(* The routes /detect and /isnude (api.py) with the detector
   (detector/__init__.py).  A base64 text is a sequence of characters "A"
   (a character of the alphabet), "=" (padding), "!" (any other character)
   and " " (white space), with the prefix of a data URL as one atom. *)

MaxDetections == 2      \* detections the backend returns for one image

\* detector/__init__.py, lines 12-31
all_labels ==
    {"FEMALE_GENITALIA_COVERED", "FACE_FEMALE", "BUTTOCKS_EXPOSED",
     "FEMALE_BREAST_EXPOSED", "FEMALE_GENITALIA_EXPOSED", "MALE_BREAST_EXPOSED",
     "ANUS_EXPOSED", "FEET_EXPOSED", "BELLY_COVERED", "FEET_COVERED",
     "ARMPITS_COVERED", "ARMPITS_EXPOSED", "FACE_MALE", "BELLY_EXPOSED",
     "MALE_GENITALIA_EXPOSED", "ANUS_COVERED", "FEMALE_BREAST_COVERED",
     "BUTTOCKS_COVERED"}

\* detector/__init__.py, lines 33-39
naughty_labels ==
    {"BUTTOCKS_EXPOSED", "FEMALE_BREAST_EXPOSED", "FEMALE_GENITALIA_EXPOSED",
     "ANUS_EXPOSED", "MALE_GENITALIA_EXPOSED"}

DataUrlPrefixes == {"data:image/png;base64,", "DATA:IMAGE/PNG;BASE64,"}

\* The characters before the first "="
RECURSIVE DataChars(_)
DataChars(s) ==
    IF s = <<>> \/ Head(s) = "=" THEN <<>> ELSE <<Head(s)>> \o DataChars(Tail(s))

\* base64.b64decode(s, validate=True) succeeds: alphabet and padding only,
\* the padding at the end and completing the last group of four
B64Valid(s) ==
    LET d == Len(DataChars(s))
        p == Len(s) - d
    IN  /\ \A i \in 1..Len(s) : s[i] \in {"A", "="}
        /\ \A i \in (d + 1)..Len(s) : s[i] = "="
        /\ \/ d % 4 = 0 /\ p = 0
           \/ d % 4 = 2 /\ p = 2
           \/ d % 4 = 3 /\ p = 1

\* _upload_from_b64, lines 17-35: exc is the status of the HTTPException
\* raised, 0 when none
UploadFromB64(b64_str) ==
    LET s0   == Strip(b64_str)
        m    == s0 # <<>> /\ Head(s0) \in DataUrlPrefixes
        mime == IF m THEN "image/png" ELSE "application/octet-stream"
        s    == IF m THEN Tail(s0) ELSE s0
    IN  IF B64Valid(s)
        THEN [exc |-> 0, filename |-> "upload", content_type |-> mime,
              raw |-> Len(DataChars(s))]
        ELSE [exc |-> 422, filename |-> "", content_type |-> "", raw |-> 0]

\* Lines 44-49 and 65-70: the upload the handler works on
BuildUpload(part, file_b64) ==
    IF part.some THEN [exc |-> 0, upload |-> part.val]
    ELSE IF Truthy(file_b64)
         THEN LET u == UploadFromB64(file_b64.val)
              IN  [exc |-> u.exc, upload |-> u]
         ELSE [exc |-> 422, upload |-> <<>>]

Answer(status, body) == [status |-> status, body |-> body]

\* detect, lines 38-56.  inference: what run_inference does with the
\* upload, [raises, results]
Detect(part, file_b64, inference) ==
    LET b == BuildUpload(part, file_b64)
    IN  IF b.exc # 0 THEN Answer(b.exc, "detail")
        ELSE IF inference.raises THEN Answer(500, "detail")
        ELSE Answer(200, inference.results)

\* Mutant: only the first detection is looked at
IsNude_FirstOnly(part, file_b64, inference) ==
    LET b == BuildUpload(part, file_b64)
    IN  IF b.exc # 0 THEN Answer(b.exc, "detail")
        ELSE IF inference.raises THEN Answer(500, "detail")
        ELSE Answer(200, [nude |-> /\ inference.results # <<>>
                                   /\ inference.results[1].class \in naughty_labels])

\* Mutant: except Exception catches the HTTPException too
IsNude_NoReraise(part, file_b64, inference) ==
    LET b == BuildUpload(part, file_b64)
    IN  IF b.exc # 0 THEN Answer(500, "detail")
        ELSE IF inference.raises THEN Answer(500, "detail")
        ELSE Answer(200, [nude |-> \E i \in 1..Len(inference.results) :
                                      inference.results[i].class \in naughty_labels])

\* isnude, lines 59-80
IsNude(part, file_b64, inference) ==
    LET b == BuildUpload(part, file_b64)
    IN  IF b.exc # 0 THEN Answer(b.exc, "detail")
        ELSE IF inference.raises THEN Answer(500, "detail")
        ELSE Answer(200, [nude |-> \E i \in 1..Len(inference.results) :
                                      inference.results[i].class \in naughty_labels])

\* An uploaded file part
FileChoices == {None, Some([filename |-> "test.jpg", content_type |-> "image/jpeg",
                            raw |-> 3])}

\* The form field file_b64: absent, empty, blank, well-formed (bare, with
\* white space around it, as a data URL) and malformed
B64Choices ==
    { None, Some(<<>>), Some(<<" ">>),
      Some(<<"A", "A", "A", "A">>), Some(<<" ", "A", "A", "=", "=", " ">>),
      Some(<<"data:image/png;base64,", "A", "A", "A", "=">>),
      Some(<<"DATA:IMAGE/PNG;BASE64,", "A", "A", "A", "A">>),
      Some(<<"A", "A", "A">>), Some(<<"A", "!", "A", "A">>),
      Some(<<"A", "A", "=", "A">>), Some(<<"data:image/png;base64,", "A">>) }

\* Labels of the detections in the inputs: the five of naughty_labels and
\* three others
LabelChoices ==
    naughty_labels \cup {"FACE_FEMALE", "FEMALE_BREAST_COVERED", "BUTTOCKS_COVERED"}

InferenceChoices ==
    {[raises |-> TRUE, results |-> <<>>]}
    \cup {[raises |-> FALSE, results |-> r] :
            r \in SeqsUpTo({[class |-> l] : l \in LabelChoices}, MaxDetections)}

NoInference == [raises |-> FALSE, results |-> <<>>]

\* served: the route, whether the dependency let the request through, the
\* inputs the handler saw and its answer
NoAnswer ==
    [route |-> "none", admitted |-> FALSE, file |-> None, file_b64 |-> None,
     ran |-> FALSE, inference |-> NoInference, status |-> 0, body |-> "none"]

Handler(route, part, file_b64, inference) ==
    IF route = "detect" THEN Detect(part, file_b64, inference)
    ELSE IsNude(part, file_b64, inference)

\* Mutant: the handler runs first, the dependency only for what it answers
ApiRequest_HandlerFirst(route) ==
    /\ served = NoAnswer
    /\ \E part \in FileChoices, file_b64 \in B64Choices,
          inference \in InferenceChoices :
         LET a   == Handler(route, part, file_b64, inference)
             ans == [route |-> route, admitted |-> FALSE, file |-> part,
                     file_b64 |-> file_b64,
                     ran |-> BuildUpload(part, file_b64).exc = 0,
                     inference |-> inference, status |-> a.status,
                     body |-> a.body]
         IN  IF a.status # 200
             THEN served' = ans /\ UNCHANGED <<last, file, admitted>>
             ELSE /\ \E client \in ClientChoices :
                       Dependency(Hdr(None, None), client, TRUE)
                  /\ served' = IF last'.status = 200
                               THEN [ans EXCEPT !.admitted = TRUE]
                               ELSE [ans EXCEPT !.status = last'.status,
                                                !.body = "detail"]
    /\ UNCHANGED <<now, env, startEnv, api_tokens, reconfigured,
                   concVars, monVars, ldrVars, monTask, proxied, histVars>>

\* POST /detect or POST /isnude: the dependency limit_token_or_ip, then the
\* handler; run_inference is called only once the upload is built
ApiRequest(route) ==
    /\ served = NoAnswer
    /\ \E client \in ClientChoices : Dependency(Hdr(None, None), client, TRUE)
    /\ IF last'.status # 200
       THEN served' = [NoAnswer EXCEPT !.route = route, !.status = last'.status,
                                       !.body = "detail"]
       ELSE \E part \in FileChoices, file_b64 \in B64Choices :
              IF BuildUpload(part, file_b64).exc # 0
              THEN LET a == Handler(route, part, file_b64, NoInference)
                   IN  served' = [route |-> route, admitted |-> TRUE,
                                  file |-> part, file_b64 |-> file_b64,
                                  ran |-> FALSE, inference |-> NoInference,
                                  status |-> a.status, body |-> a.body]
              ELSE \E inference \in InferenceChoices :
                     LET a == Handler(route, part, file_b64, inference)
                     IN  served' = [route |-> route, admitted |-> TRUE,
                                    file |-> part, file_b64 |-> file_b64,
                                    ran |-> TRUE, inference |-> inference,
                                    status |-> a.status, body |-> a.body]
    /\ UNCHANGED <<now, env, startEnv, api_tokens, reconfigured,
                   concVars, monVars, ldrVars, monTask, proxied, histVars>>

PostDetect == ApiRequest("detect")
PostIsNude == ApiRequest("isnude")

\* The answer has gone out
AnswerSent ==
    /\ served # NoAnswer
    /\ served' = NoAnswer
    /\ UNCHANGED <<now, rlVars, concVars, monVars, ldrVars, monTask, proxied, histVars>>

InitApi ==
    /\ now = 0
    /\ RlInit({StartEnv})
    /\ served = NoAnswer /\ monTask = <<>> /\ proxied = <<>>
    /\ ConcIdle /\ HistIdle /\ MonIdle /\ LdrIdle

NextApi ==
    \/ Tick
    \/ PostDetect
    \/ PostIsNude
    \/ AnswerSent

SpecApi == InitApi /\ [][NextApi]_vars

----------------------------------------------------------------------------
(* Vocabulary of the claims about the rate limiter *)

TokKey(t) == <<"tok:">> \o t
IpKey(c)  == <<"ip:">> \o (IF c.some THEN c.val ELSE <<"unknown">>)

IsTokKey(k) == k # <<>> /\ Head(k) = "tok:"

\* The limit the environment e gives the tier of key k
TierLimit(e, k) ==
    IF IsTokKey(k) THEN e.RATE_LIMIT_TOKEN_PER_MIN ELSE e.RATE_LIMIT_IP_PER_MIN

\* The timestamps the quota file f holds for key k
Stored(f, k) == IF k \in DOMAIN f.data THEN f.data[k] ELSE <<>>

\* How many of them lie in the window (t - w, t]
StoredIn(f, k, t, w) ==
    Cardinality({i \in 1..Len(Stored(f, k)) : Stored(f, k)[i] > t - w})

AllKeys == {TokKey(t) : t \in Tokens} \cup {IpKey(c) : c \in ClientChoices}

\* A step in which a request passed through a dependency
RequestStep ==
    /\ now' = now /\ env' = env /\ api_tokens' = api_tokens
    /\ (last' # last \/ admitted' # admitted \/ file' # file)

----------------------------------------------------------------------------
\* C1 (as claimed): with the limit L and the window W left unchanged, for every
\* key the number of admitted requests with a timestamp in the trailing window
\* (now - W, now] never exceeds L.
C1_AdmittedWithinLimit ==
    reconfigured = 0 =>
        \A k \in AllKeys :
            AdmittedIn(k, now, env.RATE_LIMIT_WINDOW_SEC) <= TierLimit(env, k)

\* The same for limits of at least 1 (what the code does keep)
C1_AdmittedWithinPositiveLimit ==
    reconfigured = 0 =>
        \A k \in AllKeys :
            TierLimit(env, k) >= 1 =>
                AdmittedIn(k, now, env.RATE_LIMIT_WINDOW_SEC) <= TierLimit(env, k)

----------------------------------------------------------------------------
\* What the claims expect of the request that last' records, read off the
\* state before the step.

\* The registry reports the presented token active
ReportedActive(r) == Truthy(r.token) /\ r.up /\ r.reg = "active"

\* The decision of the moving window for key k under limit l and window w,
\* taken against the timestamps the quota file holds before the step
HasRoom(k, l, w) == StoredIn(file, k, now, w) < l

\* The step charged key k with exactly one timestamp, now, and left every
\* other key of the quota file as it was
ChargedOnly(k) ==
    /\ k \in DOMAIN file'.data
    /\ file'.data[k] =
         Append(Prune(Stored(file, k), now - env.RATE_LIMIT_WINDOW_SEC), now)
    /\ \A j \in (DOMAIN file.data \cup DOMAIN file'.data) \ {k} :
         j \in DOMAIN file.data /\ j \in DOMAIN file'.data
           /\ file'.data[j] = file.data[j]
    /\ admitted' = Append(admitted, [key |-> k, ts |-> now])

\* The request was decided in the IP tier: charged to the bucket of the
\* client's address under the IP limit, never refused for another reason
GovernedByIpTier(r) ==
    LET k == IpKey(r.client)
        l == env.RATE_LIMIT_IP_PER_MIN
        w == env.RATE_LIMIT_WINDOW_SEC
    IN  /\ r.key = k
        /\ r.status \in {200, 429}
        /\ HasRoom(k, l, w) => r.status = 200
        /\ r.status = 429 => ~HasRoom(k, l, w) /\ file' = file /\ admitted' = admitted
        /\ r.status = 200 => ChargedOnly(k)

\* The request was decided in the token tier
GovernedByTokenTier(r) ==
    LET k == TokKey(r.token.val)
        l == env.RATE_LIMIT_TOKEN_PER_MIN
        w == env.RATE_LIMIT_WINDOW_SEC
    IN  /\ r.key = k
        /\ r.status \in {200, 429}
        /\ HasRoom(k, l, w) => r.status = 200
        /\ r.status = 429 => ~HasRoom(k, l, w) /\ file' = file /\ admitted' = admitted
        /\ r.status = 200 => ChargedOnly(k)

\* C3: a request bearing a token that exists but is inactive is not refused
\* because of the token: it is decided in the IP tier (admitted when the IP
\* bucket has room); once the token is active again, a request bearing it is
\* decided in the token tier.
C3_InactiveTokenIsAnonymous ==
    [][ RequestStep /\ Truthy(last'.token) /\ last'.up =>
          /\ last'.reg = "inactive" => GovernedByIpTier(last')
          /\ last'.reg = "active"   => GovernedByTokenTier(last') ]_vars

\* Reached: the token was disabled, and a request bearing it was admitted on
\* the bucket of its address
C3_Witness ==
    /\ last.token = Some(T1) /\ last.up /\ last.reg = "inactive"
    /\ api_tokens[T1] = "inactive"
    /\ last.key = IpKey(last.client) /\ last.status = 200

\* C4: when the lookup of the token raises, the request is decided in the IP
\* tier; the outage never yields an internal error.
C4_ValidatorOutageDegrades ==
    [][ RequestStep /\ Truthy(last'.token) /\ ~last'.up =>
          last'.status # 500 /\ GovernedByIpTier(last') ]_vars

\* Reached: an active token presented during an outage, admitted per address
C4_Witness ==
    /\ last.token = Some(T1) /\ ~last.up /\ last.reg = "active"
    /\ last.key = IpKey(last.client) /\ last.status = 200

\* C5: each request consults and charges exactly one bucket: the token's,
\* under the token limit, iff a token is presented and reported active;
\* otherwise that of the client address ("unknown" without one), under the
\* IP limit.
C5_ExactlyOneBucket ==
    [][ RequestStep =>
          IF ReportedActive(last')
          THEN GovernedByTokenTier(last')
          ELSE GovernedByIpTier(last') ]_vars

\* Reached: a request without client address rejected on the key "unknown"
\* while the token bucket and the address bucket hold their own timestamps
C5_Witness ==
    /\ ~last.client.some /\ last.key = <<"ip:", "unknown">> /\ last.status = 429
    /\ Stored(file, TokKey(T1)) # <<>>

\* C6: the limits and the window are read from the environment at every
\* check: a check made after an operator changed a knob is decided with the
\* new values against the timestamps already recorded for the key.
C6_KnobsReadAtEveryCheck ==
    [][ RequestStep /\ file.state = "json" =>
          LET k == last'.key
          IN  last'.status =
                IF HasRoom(k, TierLimit(env, k), env.RATE_LIMIT_WINDOW_SEC)
                THEN 200 ELSE 429 ]_vars

\* Reached: a limit was lowered to a value the recorded timestamps already
\* fill, and the next request was rejected although the limit the process
\* started with would have admitted it
C6_Witness ==
    LET k == last.key
    IN  /\ reconfigured > 0 /\ last.status = 429
        /\ 1 <= TierLimit(env, k) /\ TierLimit(env, k) < TierLimit(startEnv, k)
        /\ StoredIn(file, k, now, env.RATE_LIMIT_WINDOW_SEC) >= TierLimit(env, k)
        /\ StoredIn(file, k, now, startEnv.RATE_LIMIT_WINDOW_SEC) < TierLimit(startEnv, k)

----------------------------------------------------------------------------
\* C2 (as claimed): whatever the interleaving of the checks of several worker
\* processes, the file not existing yet included, once the checks have
\* returned no admitted timestamp of the window is missing from the quota
\* file, and at most L requests of a key are admitted within one window.
C2_AtomicUnderConcurrency ==
    (\A p \in Procs : procs[p].pc = "idle") =>
        \A k \in AllKeys :
            LET w == env.RATE_LIMIT_WINDOW_SEC
            IN  /\ AdmittedIn(k, now, w) <= TierLimit(env, k)
                /\ AdmittedIn(k, now, w) <= StoredIn(file, k, now, w)

----------------------------------------------------------------------------
(* Claims about the health monitor *)

\* Time from the first decided sample to the last
HotFor == mon.lastAt - mon.firstAt

\* C7 (as claimed): under a feed hot in every sample, from the initial state,
\* a notification has been dispatched exactly when a sample was taken at
\* which the time since the first hot sample is >= sustain, and a second one
\* comes no sooner than 300 seconds after the first.
C7_AlertAtFirstSustainedSample ==
    mon.samples /\ mon.allHot =>
        /\ mon.alerts = 0 <=> HotFor < sustain
        /\ mon.alerts >= 2 => mon.alertAt - mon.prevAt >= COOLDOWN_SECS

\* C7 (amended): the first hot sample only starts the timer; the notification
\* is dispatched at the first later sample at which the time since the first
\* hot sample is >= sustain, and a second one comes no sooner than 300
\* seconds after the first.
C7_AlertAtFirstSustainedLaterSample ==
    mon.samples /\ mon.allHot =>
        /\ mon.alerts = 0 <=> (mon.lastAt = mon.firstAt \/ HotFor < sustain)
        /\ mon.alerts >= 2 => mon.alertAt - mon.prevAt >= COOLDOWN_SECS

\* Reached: the feed has been hot throughout, one notification went out when
\* the default sustain time had passed, and 200 seconds later, still hot, no
\* second one has
C7_Witness ==
    /\ mon.samples /\ mon.allHot /\ sustain = DEFAULT_SUSTAIN_SECS
    /\ mon.alerts = 1 /\ mon.alertAt - mon.firstAt >= sustain
    /\ mon.lastAt >= mon.alertAt + 200

\* C8: while every run of consecutive hot samples has lasted less than
\* sustain, no notification is dispatched.
C8_ShortRunsNeverAlert ==
    mon.runsShort => mon.alerts = 0

\* Reached: a second run of hot samples, two samples long, after a sample
\* that was not hot, all runs shorter than sustain
C8_Witness ==
    /\ mon.samples /\ ~mon.allHot /\ mon.runsShort /\ sustain > 0
    /\ mon.runStart # NoTime /\ mon.lastAt > mon.runStart
    /\ mon.alerts = 0

\* C9: a notification is never dispatched at a time before cool_down_until,
\* and two dispatches are at least 300 seconds apart, whatever the feed.
C9_CooldownRespected ==
    /\ mon.alerts >= 1 => mon.alertAt >= mon.alertCd
    /\ mon.alerts >= 2 => mon.alertAt - mon.prevAt >= COOLDOWN_SECS

\* Reached: a second notification, after samples that were not all hot
C9_Witness ==
    mon.alerts >= 2 /\ ~mon.allHot /\ mon.alertCd > 0

----------------------------------------------------------------------------
(* Claims about the sibling workers *)

Monitoring == {w \in Workers : workers[w].monitoring}

----------------------------------------------------------------------------
(* Claims about the start of the monitor *)

\* C11: with PUSHCUT_URL empty or NETDATA_MONITOR not set, the monitor task
\* never enters its loop, never asks the metrics API and never posts a
\* notification.
C11_DisabledMonitorDoesNothing ==
    ~(monitorCfg.NETDATA_MONITOR /\ monitorCfg.PUSHCUT_URL) =>
        /\ monTask.pc # "running"
        /\ ~monTask.polled /\ ~monTask.posted
        /\ mon.alerts = 0 /\ ~mon.samples

\* Reached: monitoring is switched on, the sink URL is empty, monitor_loop
\* was scheduled and has returned
C11_Witness ==
    /\ monitorCfg.NETDATA_MONITOR /\ ~monitorCfg.PUSHCUT_URL
    /\ monTask.pc = "returned"

----------------------------------------------------------------------------
(* Claims about the reverse proxy *)

HopByHopNames ==
    {"connection", "keep-alive", "proxy-authenticate", "proxy-authorization",
     "te", "trailers", "transfer-encoding", "upgrade"}

Carried(headers) == {Lower(k) : k \in DOMAIN headers}

\* C12: on every return path, neither the headers forwarded to the upstream
\* nor the headers of the response returned to the caller include a name
\* that, lower-cased, is one of the eight hop-by-hop names.
C12_NoHopByHopHeaders ==
    /\ Carried(proxied.fwd) \cap HopByHopNames = {}
    /\ Carried(proxied.headers) \cap HopByHopNames = {}

\* Reached: an HTML answer was rewritten, the upstream had sent hop-by-hop
\* headers with it, and the request came with headers of both kinds
C12_Witness ==
    /\ proxied.path = "rewritten"
    /\ Carried(proxied.outcome.headers) \cap HopByHopNames # {}
    /\ DOMAIN proxied.fwd # {}
    /\ DOMAIN proxied.headers # {}

\* C13: when the request to the upstream fails to connect or times out, the
\* answer is the fixed diagnostic page with status 502, which names the
\* configured base address; the error does not leave the handler.
C13_UnreachableIs502 ==
    proxied.called /\ proxied.outcome.kind \in {"ConnectError", "ReadTimeout"} =>
        /\ proxied.status = 502
        /\ proxied.path = "unreachable"
        /\ proxied.body = Page("Netdata upstream unreachable", Hint)
        /\ \E i \in 1..Len(proxied.body) : proxied.body[i] = NETDATA_BASE

\* Reached: the request to the upstream timed out and the caller got 502
C13_Witness ==
    /\ proxied.called /\ proxied.outcome.kind = "ReadTimeout"
    /\ proxied.status = 502

\* The body has neither the prefix after a root reference nor the base tag
NoPrefix(html) ==
    \A i \in 1..Len(html) : html[i] \notin {"netdata/", BaseTag, Shim}

\* C14: for a body without the mount prefix, rewriting the rewritten body
\* gives the rewritten body again.
C14_RewriteIdempotent ==
    proxied.path = "rewritten" /\ NoPrefix(proxied.outcome.content) =>
        RewriteHtml(proxied.body) = proxied.body

Forwarding == {"netdata_api", "netdata_asset"}

\* C15 (as claimed): without a valid admin session the answer is 401 and the
\* upstream is not contacted; with one the status of a forwarding route is
\* 200 or the status the upstream returned.
C15_GuardedAs200OrUpstream ==
    proxied.route \in NetdataRoutes =>
        IF proxied.session # "admin"
        THEN proxied.status = 401 /\ ~proxied.called
        ELSE \/ proxied.route \notin Forwarding
             \/ proxied.status = 200
             \/ /\ proxied.called /\ proxied.outcome.kind = "response"
                /\ proxied.status = proxied.outcome.status

\* C15 (amended): without a valid admin session the answer is 401 and the
\* upstream is not contacted; with one the two redirect routes answer 302
\* without contacting the upstream, and the forwarding routes answer with
\* the status the upstream returned, 502 when it cannot be reached or times
\* out, and 500 when the forwarding fails otherwise.
C15_GuardedRoutes ==
    proxied.route \in NetdataRoutes =>
        IF proxied.session # "admin"
        THEN proxied.status = 401 /\ ~proxied.called
        ELSE IF proxied.route \notin Forwarding
        THEN proxied.status = 302 /\ ~proxied.called
        ELSE /\ proxied.called
             /\ proxied.status =
                  CASE proxied.outcome.kind = "response" -> proxied.outcome.status
                    [] proxied.outcome.kind \in {"ConnectError", "ReadTimeout"} -> 502
                    [] OTHER -> 500

\* Reached: a session of another user asked the API route and got 401
C15_Witness ==
    /\ proxied.route = "netdata_api" /\ proxied.session = "other"
    /\ proxied.status = 401 /\ ~proxied.called

----------------------------------------------------------------------------
(* Claims about /detect and /isnude *)

SensitiveLabels ==
    {"BUTTOCKS_EXPOSED", "FEMALE_BREAST_EXPOSED", "FEMALE_GENITALIA_EXPOSED",
     "ANUS_EXPOSED", "MALE_GENITALIA_EXPOSED"}

\* C16: whatever list of detections the backend returns, /isnude answers 200
\* with nude true iff some detection has a label of the sensitive set; the
\* empty list gives false.
C16_IsNudeIffSensitive ==
    served.route = "isnude" /\ served.ran /\ ~served.inference.raises =>
        /\ served.status = 200
        /\ served.body =
             [nude |-> \E i \in 1..Len(served.inference.results) :
                          served.inference.results[i].class \in SensitiveLabels]

\* Reached: two detections, the first harmless, the second sensitive, and
\* the answer true
C16_Witness ==
    /\ served.route = "isnude" /\ served.ran /\ served.status = 200
    /\ Len(served.inference.results) = 2
    /\ served.inference.results[1].class = "FACE_FEMALE"
    /\ served.inference.results[2].class = "ANUS_EXPOSED"
    /\ served.body.nude

\* The malformed values among the inputs
MalformedB64 ==
    {<<"A", "A", "A">>, <<"A", "!", "A", "A">>, <<"A", "A", "=", "A">>,
     <<"data:image/png;base64,", "A">>}

NoB64Field == ~served.file_b64.some \/ served.file_b64.val = <<>>
BadB64Field == served.file_b64.some /\ served.file_b64.val \in MalformedB64

\* C17 (as claimed): an admitted request with neither a file nor a file_b64
\* field, or with a malformed file_b64, is answered 422; an exception raised
\* by the inference is answered 500.
C17_MalformedIs422 ==
    served.admitted =>
        /\ (~served.file.some /\ NoB64Field) \/ BadB64Field => served.status = 422
        /\ served.ran /\ served.inference.raises => served.status = 500

\* C17 (amended): an admitted request without an uploaded file, and with no
\* file_b64 field or a malformed one, is answered 422; an exception raised
\* by the inference is answered 500.
C17_MalformedWithoutFileIs422 ==
    served.admitted =>
        /\ ~served.file.some /\ (NoB64Field \/ BadB64Field) =>
              served.status = 422 /\ ~served.ran
        /\ served.ran /\ served.inference.raises => served.status = 500

\* Reached: /isnude, no file, a file_b64 with a character outside the
\* alphabet, answered 422
C17_Witness ==
    /\ served.route = "isnude" /\ served.admitted /\ ~served.file.some
    /\ served.file_b64 = Some(<<"A", "!", "A", "A">>)
    /\ served.status = 422

----------------------------------------------------------------------------
(* Claims about is_allowed *)

\* The step was a call of is_allowed for the key of the request
Checked == RequestStep /\ last'.status \in {200, 429}

\* C18: is_allowed(k, L, W) at time now returns true iff fewer than L of the
\* timestamps stored for k are later than now - W, a missing file counting
\* as none, for every L >= 0; when it returns true, k's sequence is the
\* pruned one with now appended.
C18_AllowedIffBelowLimit ==
    [][ Checked =>
          LET k == last'.key
              w == env.RATE_LIMIT_WINDOW_SEC
          IN  /\ last'.status = 200 <=> StoredIn(file, k, now, w) < TierLimit(env, k)
              /\ last'.status = 200 =>
                    /\ k \in DOMAIN file'.data
                    /\ file'.data[k] = Append(Prune(Stored(file, k), now - w), now)
      ]_vars

\* C19: a refused check leaves the quota file as it was; an admitted one
\* writes exactly one timestamp, for the key of the request, and leaves the
\* sequences of the other keys as they were.
C19_RejectionLeavesStore ==
    [][ Checked =>
          /\ last'.status = 429 => file' = file
          /\ last'.status = 200 => ChargedOnly(last'.key)
      ]_vars

\* Reached: a request was refused while the file held a timestamp of its key
C19_Witness ==
    /\ last.status = 429
    /\ file.state = "json" /\ Stored(file, last.key) # <<>>

\* Every timestamp the file f holds for key k is later than t - w
AllRecent(f, k, t, w) ==
    \A i \in 1..Len(Stored(f, k)) : Stored(f, k)[i] > t - w

\* C20 (as claimed): after every check of key k at time now with window W,
\* admitted or refused, also after the knobs were changed, every timestamp
\* the file holds for k is later than now - W.
C20_RetainedWithinWindow ==
    [][ Checked => AllRecent(file', last'.key, now, env.RATE_LIMIT_WINDOW_SEC) ]_vars

\* C20 (amended): after every check of key k at time now with window W that
\* admits, also after the knobs were changed, every timestamp the file
\* holds for k is later than now - W; a check that refuses leaves the
\* sequence of k as it was.
C20_RetainedWithinWindowOnAdmit ==
    [][ Checked =>
          /\ last'.status = 200 =>
                AllRecent(file', last'.key, now, env.RATE_LIMIT_WINDOW_SEC)
          /\ last'.status = 429 =>
                Stored(file', last'.key) = Stored(file, last'.key)
      ]_vars

\* Reached: the window was changed, and a request was then admitted at a
\* later time than the start, leaving its timestamp alone in the sequence
C20_Witness ==
    /\ reconfigured >= 1
    /\ env.RATE_LIMIT_WINDOW_SEC # startEnv.RATE_LIMIT_WINDOW_SEC
    /\ now > 0 /\ last.status = 200
    /\ Stored(file, last.key) = <<now>>

\* C21: for L >= 1, a check of key k made when fewer than L of the admitted
\* timestamps of k are newer than now - W is admitted, however many checks
\* of k were refused before it; refused checks do not extend the window, so
\* that L requests spaced W apart are all admitted.
C21_AdmittedOnceRoom ==
    [][ Checked =>
          LET k == last'.key
          IN  TierLimit(env, k) >= 1
                /\ AdmittedIn(k, now, env.RATE_LIMIT_WINDOW_SEC) < TierLimit(env, k)
              => last'.status = 200
      ]_vars

\* Reached: a key with a limit of one or more is admitted again after
\* MaxRetries refused checks, and has by now been admitted more often than
\* its limit
C21_Witness ==
    /\ last.status = 200 /\ TierLimit(env, last.key) >= 1
    /\ retries.cleared = MaxRetries
    /\ Cardinality({i \in 1..Len(admitted) : admitted[i].key = last.key})
         > TierLimit(env, last.key)

\* C22: a check of key k, admitted or refused, the check that creates the
\* file included, leaves the sequence the file holds for every other key
\* as it was: every step a process takes inside is_allowed for its key
\* leaves the other keys' sequences unchanged.
C22_OtherKeysUntouched ==
    [][ \A p \in Procs :
          procs'[p] # procs[p] =>
              \A k \in AllKeys \ {procs[p].key} :
                  Stored(file', k) = Stored(file, k)
      ]_vars

----------------------------------------------------------------------------
(* Claims about the extraction of the token *)

\* The header value is there and not the empty string
NonEmpty(v) == v.some /\ v.val # <<>>

\* The Authorization value is exactly two words, the first of them "bearer"
\* in any case
WellFormedBearer(a) ==
    /\ a.some
    /\ Cardinality({i \in 1..Len(a.val) : a.val[i] # " "}) = 2
    /\ Lower(Split(a.val)[1]) = "bearer"

\* The candidate token as the claim words it
Candidate(h) ==
    IF NonEmpty(h.x_api_key) THEN Some(Strip(h.x_api_key.val))
    ELSE IF WellFormedBearer(h.authorization)
         THEN Some(<<Split(h.authorization.val)[2]>>)
         ELSE None

\* The Bearer token of the headers h belongs to an active record
ActiveBearer(h) ==
    /\ WellFormedBearer(h.authorization)
    /\ <<Split(h.authorization.val)[2]>> \in DOMAIN api_tokens
    /\ api_tokens[<<Split(h.authorization.val)[2]>>] = "active"

\* The step was a request with the headers sent' whose lookup, if any, was
\* answered by the token database
Classified == RequestStep /\ last'.status \in {200, 429} /\ last'.up

----------------------------------------------------------------------------
(* Claims about the order of the rate limit and the handler *)

\* The step was a request to /detect or /isnude that got its answer
Answered == served = NoAnswer /\ served' # NoAnswer

\* C24: on /detect and /isnude a request refused with 429 never reaches
\* run_inference and leaves the quota file alone; run_inference is called
\* for admitted requests only; and an admitted request is charged one
\* timestamp to its key whatever the handler then answers, 422 and 500
\* included.
C24_LimitBeforeHandler ==
    [][ Answered =>
          /\ served'.status = 429 =>
                ~served'.ran /\ ~served'.admitted /\ file' = file
          /\ served'.ran => served'.admitted
          /\ served'.admitted <=> last'.status = 200
          /\ served'.admitted => ChargedOnly(last'.key)
      ]_vars

\* Reached: an admitted request whose inference raised was answered 500 and
\* its timestamp is in the file
C24_Witness ==
    /\ served.admitted /\ served.ran /\ served.status = 500
    /\ Stored(file, last.key) # <<>>
    /\ Stored(file, last.key)[Len(Stored(file, last.key))] = now

----------------------------------------------------------------------------
(* Claims about the monitor after a notification *)

\* C25 (as claimed): a notification at time t sets cool_down_until = t + 300
\* and hot_since = t, and under a feed hot in every sample the next one is
\* dispatched at the first sample taken at t + 300 or later, for every
\* sustain: no sample at t + 300 or later passes without one.
C25_RealertsEveryCooldown ==
    mon.allHot /\ mon.alerts >= 1 =>
        /\ cool_down_until = mon.alertAt + COOLDOWN_SECS
        /\ hot_since = mon.alertAt
        /\ mon.lastAt < mon.alertAt + COOLDOWN_SECS
        /\ mon.alerts >= 2 => mon.alertAt >= mon.prevAt + COOLDOWN_SECS

\* The time after a notification before the next: the cooldown, or sustain
\* where that is longer
RealertSecs == IF sustain > COOLDOWN_SECS THEN sustain ELSE COOLDOWN_SECS

\* C25 (amended): a notification at time t sets cool_down_until = t + 300
\* and hot_since = t, and under a feed hot in every sample the next one is
\* dispatched at the first sample taken at t + max(300, sustain) or later.
C25_RealertsEveryCooldownOrSustain ==
    mon.allHot /\ mon.alerts >= 1 =>
        /\ cool_down_until = mon.alertAt + COOLDOWN_SECS
        /\ hot_since = mon.alertAt
        /\ mon.lastAt < mon.alertAt + RealertSecs
        /\ mon.alerts >= 2 => mon.alertAt >= mon.prevAt + RealertSecs

\* Reached: with the default sustain, a second notification, within one
\* poll interval and latency of 300 seconds after the first, and a sample
\* after it
C25_Witness ==
    /\ mon.allHot /\ sustain = DEFAULT_SUSTAIN_SECS
    /\ mon.alerts = 2
    /\ mon.alertAt - mon.prevAt <= COOLDOWN_SECS + SleepSecs(poll) + MaxLatency
    /\ mon.lastAt > mon.alertAt

\* The step decided a sample; the sample was hot
Sampled   == mon'.lastAt # mon.lastAt
SampleHot == mon'.runStart # NoTime

\* C26: whenever hot_since is None and the sample is hot, the cycle sets
\* hot_since to the time of that sample, also while a cooldown is active.
C26_CoolToWarmingAlways ==
    [][ Sampled /\ SampleHot /\ hot_since = NoTime => hot_since' = now' ]_vars

----------------------------------------------------------------------------
(* Claims about the samples *)

\* The metric was obtained and is at or over the threshold
Crosses(v, threshold) == v # NoMetric /\ v >= threshold

\* The sample m = <<cpu, mem, load1x10>> is hot, as the claims word it
HotSample(m) ==
    \/ Crosses(m[1], STRESS_CPU_PCT)
    \/ Crosses(m[2], STRESS_MEM_PCT)
    \/ Crosses(m[3], Cores * STRESS_LOAD_MULT_X10)

\* C27: after every cycle whose sample is not hot, failed fetches included
\* and whether or not a cooldown is active, hot_since is None; and the
\* timer restarts from the first hot sample after the most recent sample
\* that was not hot: while no notification has gone out since that sample,
\* hot_since is its time.
C27_NotHotResets ==
    mon.samples =>
        /\ ~HotSample(fetched) => hot_since = NoTime
        /\ mon.runStart # NoTime /\ mon.alertAt < mon.runStart =>
              hot_since = mon.runStart

\* What the code keeps of C27: the reset, and a hot_since that is never
\* earlier than the first hot sample after the most recent sample that was
\* not hot
C27_NotHotResetsNoEarlier ==
    mon.samples =>
        /\ ~HotSample(fetched) => hot_since = NoTime
        /\ hot_since # NoTime =>
              mon.runStart # NoTime /\ hot_since >= mon.runStart

\* C28: a sample is hot iff one of the three metrics was obtained and is at
\* or over its threshold; only a hot sample starts the timer or leads to a
\* notification, and a cycle in which no metric was obtained does neither.
C28_HotIffObtainedOverThreshold ==
    [][ Sampled =>
          /\ SampleHot <=> HotSample(fetched')
          /\ ~HotSample(fetched') =>
                hot_since' = NoTime /\ mon'.alerts = mon.alerts
          /\ fetched' = NoFetch => ~SampleHot /\ mon'.alerts = mon.alerts
      ]_vars

\* Reached: a notification on a sample whose only obtained metric is a load
\* exactly at cores x multiplier
C28_Witness ==
    /\ mon.alerts >= 1 /\ mon.alertAt = now
    /\ fetched = <<NoMetric, NoMetric, Cores * STRESS_LOAD_MULT_X10>>

----------------------------------------------------------------------------
(* Claims about errors in the loop *)

\* The clock has reached the point where the model stops it
ClockEnd == now + SleepSecs(poll) > MaxLoopTime

\* C29: the loop, once running, is never left, and a cycle that raises is
\* followed by the next cycle after the same delay with the locals as they
\* were; under a fair scheduler a further cycle is always eventually
\* performed, until the clock stops.
C29_LoopSurvivesErrors ==
    /\ [][ monTask.pc = "running" =>
             /\ monTask'.pc = "running" /\ poll' = poll
             /\ loopLog'.raisedAt # loopLog.raisedAt =>
                  /\ hot_since' = hot_since /\ cool_down_until' = cool_down_until
                  /\ now' - now >= SleepSecs(poll)
                  /\ now' - now <= SleepSecs(poll) + MaxLatency
         ]_vars
    /\ \A n \in 0..MaxLoopTime :
         (monTask.pc = "running" /\ now = n) ~> (now > n \/ ClockEnd)

\* Reached: a cycle raised, and the next cycle, one poll delay later, took
\* its sample
C29_Witness ==
    /\ monTask.pc = "running"
    /\ loopLog.raisedAt # NoTime /\ mon.lastAt = now
    /\ now > loopLog.raisedAt
    /\ now - loopLog.raisedAt <= SleepSecs(poll) + MaxLatency

\* C30: a notification whose post raises leaves the loop running with
\* cool_down_until = now + 300 and hot_since = now, as a delivered one does,
\* and the next notification comes no sooner than 300 seconds later.
C30_FailedPostSwallowed ==
    [][ mon'.alerts > mon.alerts =>
          /\ cool_down_until' = now' + COOLDOWN_SECS
          /\ hot_since' = now'
          /\ monTask'.pc = "running"
          /\ mon.alerts >= 1 => now' - mon.alertAt >= COOLDOWN_SECS
      ]_vars

\* Reached: the post of the notification raised, the cooldown runs from it,
\* and the next hot sample went by without another post
C30_Witness ==
    /\ loopLog.failedAt # NoTime /\ loopLog.failedAt = mon.alertAt
    /\ cool_down_until = mon.alertAt + COOLDOWN_SECS
    /\ mon.lastAt > mon.alertAt /\ mon.runStart # NoTime
    /\ mon.alerts = 1 /\ ~monTask.posted
    /\ monTask.pc = "running"

----------------------------------------------------------------------------
(* Claims about the exchange of the proxy with the upstream *)

HtmlAnswer ==
    /\ proxied.outcome.kind = "response"
    /\ IsHtml(Get(proxied.outcome.headers, "content-type", ""))
    /\ proxied.outcome.content # <<>>

\* C31: whenever the proxy returns an HTML body that differs from the
\* upstream's, the response carries no content-length header of the
\* upstream; every non-empty HTML answer whose rewrite does not raise is
\* returned with a different body (the shim is in it) and so without that
\* header.
C31_RewrittenDropsLength ==
    /\ HtmlAnswer /\ proxied.body # proxied.outcome.content =>
         "content-length" \notin Carried(proxied.headers)
    /\ HtmlAnswer /\ ~proxied.raises =>
         /\ proxied.path = "rewritten"
         /\ proxied.body # proxied.outcome.content
         /\ \E i \in 1..Len(proxied.body) : proxied.body[i] = Shim
         /\ "content-length" \notin Carried(proxied.headers)

\* Reached: the upstream sent an HTML body with a Content-Length header, and
\* the rewritten body went out without it but with the other headers
C31_Witness ==
    /\ HtmlAnswer /\ proxied.path = "rewritten"
    /\ "content-length" \in Carried(proxied.outcome.headers)
    /\ "content-length" \notin Carried(proxied.headers)
    /\ "content-type" \in Carried(proxied.headers)
    /\ proxied.body # proxied.outcome.content

\* The answer of the upstream is one the proxy does not rewrite
PassedThrough ==
    /\ proxied.outcome.kind = "response"
    /\ \/ ~IsHtml(Get(proxied.outcome.headers, "content-type", ""))
       \/ proxied.outcome.content = <<>>
       \/ proxied.raises

\* C32: an upstream response that is not HTML, or is HTML with an empty
\* body, or whose rewrite raised, is returned with the upstream's status and
\* body and with every upstream header that is not hop-by-hop and no other,
\* as a length-known response iff the upstream sent content-length and as a
\* streamed one otherwise.
C32_PassThroughUnchanged ==
    PassedThrough =>
        /\ proxied.status = proxied.outcome.status
        /\ proxied.body = proxied.outcome.content
        /\ Carried(proxied.headers) = Carried(proxied.outcome.headers) \ HopByHopNames
        /\ \A k \in DOMAIN proxied.outcome.headers :
             Lower(k) \notin HopByHopNames =>
                 /\ Lower(k) \in DOMAIN proxied.headers
                 /\ proxied.headers[Lower(k)] = proxied.outcome.headers[k]
        /\ proxied.path =
             IF "content-length" \in Carried(proxied.outcome.headers)
             THEN "length_known" ELSE "streamed"

\* Reached: an HTML answer with a Content-Length header whose rewrite raised
\* went out as it came, length-known, without the hop-by-hop headers
C32_Witness ==
    /\ HtmlAnswer /\ proxied.raises
    /\ proxied.path = "length_known"
    /\ proxied.status = 404
    /\ proxied.body = proxied.outcome.content
    /\ "content-length" \in Carried(proxied.headers)
    /\ Carried(proxied.outcome.headers) \cap HopByHopNames # {}

\* Reached: a JSON answer without a content-length header was streamed
C32_WitnessStreamed ==
    /\ PassedThrough /\ ~HtmlAnswer
    /\ proxied.path = "streamed"
    /\ "x-frame-options" \in Carried(proxied.headers)

Forwarded == proxied.request.method # "none"

PairsOf(query) == {query[i] : i \in 1..Len(query)}
ParamPairs(params) == {<<k, params[k]>> : k \in DOMAIN params}

\* The method, the body and the headers of the request to the upstream
ForwardedFrame ==
    /\ proxied.upstream.method = proxied.request.method
    /\ proxied.upstream.content =
         IF proxied.request.method \in {"GET", "HEAD"}
         THEN None ELSE Some(proxied.request.body)
    /\ Carried(proxied.upstream.headers) =
         Carried(proxied.request.headers) \ (HopByHopNames \cup {"accept-encoding"})
    /\ \A k \in DOMAIN proxied.request.headers :
         Lower(k) \notin HopByHopNames \cup {"accept-encoding"} =>
             proxied.upstream.headers[Lower(k)] = proxied.request.headers[k]

\* C33: the request issued to the upstream has the inbound method and query
\* parameters, the inbound body for every method but GET and HEAD and no
\* body for those, and exactly the inbound headers without the hop-by-hop
\* ones and without accept-encoding.
C33_ForwardsRequest ==
    Forwarded =>
        /\ ForwardedFrame
        /\ ParamPairs(proxied.upstream.params) = PairsOf(proxied.request.query)

\* What the code does with the query: the names of the inbound query, each
\* with the value of its last occurrence
C33_ForwardsLastOfEachName ==
    Forwarded =>
        /\ ForwardedFrame
        /\ ParamPairs(proxied.upstream.params) \subseteq PairsOf(proxied.request.query)
        /\ DOMAIN proxied.upstream.params =
             {pr[1] : pr \in PairsOf(proxied.request.query)}

----------------------------------------------------------------------------
(* Claims about limit_by_token and about an unparsable store *)

\* The last request went through limit_by_token, which takes no peer address
ByToken(l) == ~l.client.some /\ l.status # 0

BucketOf(l) == <<"tok:">> \o l.token.val

\* C34: limit_by_token answers 401 when the token is missing, malformed,
\* unknown or inactive, and such a request changes no bucket; a request is
\* checked against a bucket only with an active token, the bucket is the
\* token's, and an admitted request is charged to it alone.
C34_TokenRequired ==
    /\ [](ByToken(last) =>
            /\ last.status \in {200, 401, 429}
            /\ ~Truthy(last.token) \/ last.reg \in {"none", "absent", "inactive"} =>
                 last.status = 401
            /\ last.status \in {200, 429} =>
                 /\ Truthy(last.token) /\ last.reg = "active"
                 /\ last.key = BucketOf(last))
    /\ [][ ByToken(last') =>
             /\ last'.status = 401 => file' = file /\ admitted' = admitted
             /\ file' # file => admitted' # admitted
             /\ admitted' # admitted =>
                  /\ last'.status = 200 /\ last'.reg = "active"
                  /\ admitted' = Append(admitted, [key |-> BucketOf(last'), ts |-> now])
                  /\ LET d0 == JsonLoad(file)
                         d1 == JsonLoad(file')
                         k  == BucketOf(last')
                     IN  /\ DOMAIN d1 = DOMAIN d0 \cup {k}
                         /\ \A o \in DOMAIN d0 \ {k} : d1[o] = d0[o]
                         /\ Len(d1[k]) >= 1 /\ d1[k][Len(d1[k])] = now
         ]_vars

\* Reached: the token was charged while active, was then made inactive, and
\* the request that presented it got 401 with the buckets of the token and
\* of the peer address as they were
C34_Witness ==
    /\ ByToken(last) /\ last.status = 401
    /\ last.token = Some(T1) /\ last.reg = "inactive"
    /\ file.state = "json"
    /\ <<"tok:">> \o T1 \in DOMAIN file.data
    /\ Len(file.data[<<"tok:">> \o T1]) = 1
    /\ <<"ip:">> \o IP1 \in DOMAIN file.data
    /\ Len(admitted) = 2

\* The file exists and json.load rejects its content
Unparsable(f) == f.state \in {"empty", "corrupt"}

\* A step in which a request passed through the dependency
Requested == now' = now /\ api_tokens' = api_tokens /\ (last' # last \/ file' # file)

\* The limit _hit_or_429 hands to is_allowed for the key of request l
LimitFor(l) ==
    LET rates == CurrentRates(env)
    IN  IF l.key[1] = "tok:" THEN RateStrParts(rates.token_rate)[1]
        ELSE RateStrParts(rates.ip_rate)[1]

\* C35: when the quota file exists and its content is not JSON, a request
\* under a limit of at least 1 is admitted and the store is rewritten to
\* hold the key of the request with the single timestamp now and nothing
\* else.
C35_UnparsableStoreFailsOpen ==
    [][ Unparsable(file) /\ Requested /\ LimitFor(last') >= 1 =>
          /\ last'.status = 200
          /\ file' = JsonFile(Put(EmptyData, last'.key, <<now>>))
          /\ DOMAIN file'.data = {last'.key}
      ]_vars

\* Reached: the store holds the key of the last request alone, with the
\* timestamp now, while another key was admitted within the window, which
\* the store no longer records
C35_Witness ==
    /\ last.status = 200 /\ now > 0
    /\ file = JsonFile(Put(EmptyData, last.key, <<now>>))
    /\ \E i \in 1..Len(admitted) :
         /\ admitted[i].key # last.key
         /\ admitted[i].ts > now - env.RATE_LIMIT_WINDOW_SEC

====
